---- MODULE Spec2Model ----
(***************************************************************************)
(* State-machine model of two parts of LMMS:                               *)
(*   - the AudioFileProcessor instrument (normalized start/end/loop point  *)
(*     models, their change handlers, and the per-period voice driver      *)
(*     playNote), plugins/AudioFileProcessor/AudioFileProcessor.cpp;       *)
(*   - the SDL audio device (start/stop and the pull callback),            *)
(*     src/core/audio/AudioSdl.cpp.                                        *)
(*                                                                         *)
(* Normalized point values are floats in [0,1] in the source.  They are    *)
(* modelled exactly on a grid of One units per 1.0; the source's 0.001f    *)
(* is Eps units.  Float rounding error is not modelled.                    *)
(***************************************************************************)
EXTENDS Integers, Sequences, FiniteSets, TLC

\* ------------------------------------------------------------------ bounds
\* Grid points per 0.001 of normalized length (2: values between two
\* multiples of 0.001 exist).
GridPerEps == 2
\* Largest sample length, in frames, that a file load can produce.
MaxFrames == 3
\* Deepest nesting of change handlers that is followed before the cascade is
\* reported as not settling.
MaxDepth == 12
\* Largest number of frames one playNote period asks for.
MaxPeriodFrames == 2

\* --------------------------------------------------------------- constants
\* 0.001f, AudioFileProcessor.cpp:381,393,414,417
Eps == GridPerEps
\* 1.0f, the maximum of the three point models, AudioFileProcessor.cpp:88-90
One == 1000 * GridPerEps
\* frequency below which a note is the "magic key", AudioFileProcessor.cpp:132
MagicFreq == 20

\* A frame of an output or working buffer that nobody has written.
Unwritten == -1

Min2(a, b) == IF a < b THEN a ELSE b
Max2(a, b) == IF a > b THEN a ELSE b

\* Sample::Loop
LoopOff == 0
LoopOn == 1
LoopPingPong == 2
LoopModes == {LoopOff, LoopOn, LoopPingPong}

\* Values an editor hands to a point model in the edit specification.
EditVals == {0, 1, Eps, One \div 2, One - Eps, One - 1, One}
\* Values an editor hands to a point model in the playback specification.
PlayVals == {0, One}
\* Frame counts of the samples a file load can produce.
SampleSizes == {0, 1, MaxFrames}
\* Frame counts of the samples a file load produces in the playback
\* specification.
PlaySizes == {0, MaxFrames}

VARIABLES
    m_startPointModel,     \* FloatModel value, grid units
    m_endPointModel,
    m_loopPointModel,
    m_sample,              \* [frames, startFrame, endFrame, loopStartFrame,
                           \*  loopEndFrame, reversed]
    m_nextPlayStartPoint,
    m_nextPlayBackwards,
    m_stutterModel,
    m_loopModel,
    m_reverseModel,
    notes,                 \* note slot -> [m_pluginData, finished, ...]
    cascadeOver,           \* the last edit's handler cascade exceeded MaxDepth
    heap,                  \* the PlaybackState objects that are allocated
    cont,                  \* cursor and direction of the last processed period
    last                   \* what the last operation was and what it saw

afpVars == << m_startPointModel, m_endPointModel, m_loopPointModel, m_sample,
              m_nextPlayStartPoint, m_nextPlayBackwards, m_stutterModel,
              m_loopModel, m_reverseModel, notes, heap, cascadeOver, cont,
              last >>

\* The SDL device (AudioSdl).
VARIABLES
    have_sdl2,                  \* LMMS_HAVE_SDL2 is defined in this build
    backend,                    \* what the constructor got from SDL and the
                                \* heap, and what the destructor gave back
    m_outputDevice,             \* 0: SDL_OpenAudioDevice / SDL_OpenAudio failed
    m_stopped,
    sdl_paused,                 \* SDL's pause state of the output device
    sdl_lock,                   \* holder of the device lock: "free", "ctl", "cb"
    ctl_pc,                     \* the control thread inside start/stopProcessing
    stopReturned,               \* stopProcessing returned, no startProcessing since
    cb,                         \* the callback invocation in progress
    m_currentBufferFramePos,    \* non-SDL2 build: m_convertedBufPos, in frames
    m_currentBufferFramesCount, \* non-SDL2 build: m_convertedBufSize, in frames
    m_outBuf,                   \* frames being handed out (non-SDL2: m_convertedBuf)
    pulled,                     \* frames the engine has produced so far
    masterGain

\* One edit seen from two threads: the control thread inside the handler
\* cascade and the audio thread inside playNote.
VARIABLES
    ed,     \* the edit in progress: marker groups still to be handed to the
            \* sample, the group before the edit and the group after it
    au,     \* the audio thread inside playNote for a new note
    obs     \* the marker group the audio thread read last

raceVars == << ed, au, obs >>

sdlVars == << have_sdl2, backend, m_outputDevice, m_stopped, sdl_paused, sdl_lock, ctl_pc,
              stopReturned, cb, m_currentBufferFramePos,
              m_currentBufferFramesCount, m_outBuf, pulled, masterGain >>


\* ------------------------------------------------- the point-model cascade
\* The instrument's fields the change handlers read and write, as one record,
\* plus the bookkeeping of the synchronous (Qt::DirectConnection) cascade:
\* depth of handler nesting, whether MaxDepth was exceeded, and the groups
\* handed to Sample::setAllPointFrames, in order.
Cur == [ start |-> m_startPointModel, end |-> m_endPointModel,
         loop |-> m_loopPointModel, sample |-> m_sample,
         nps |-> m_nextPlayStartPoint, npb |-> m_nextPlayBackwards,
         depth |-> 0, over |-> FALSE, pubs |-> << >> ]

\* static_cast<f_cnt_t>(value * sampleSize): truncation.
ToFrame(v, size) == (v * size) \div One

\* Sample::setAllPointFrames(start, end, loopStart, loopEnd)
setAllPointFrames(smp, fs, fe, fl, fle) ==
    [smp EXCEPT !.startFrame = fs, !.endFrame = fe,
                !.loopStartFrame = fl, !.loopEndFrame = fle]

\* Mutant: the continuation point is not reset.
pointChanged_KeepCursor(st) ==
    LET f_start == ToFrame(st.start, st.sample.frames)
        f_end   == ToFrame(st.end, st.sample.frames)
        f_loop  == ToFrame(st.loop, st.sample.frames)
        smp     == setAllPointFrames(st.sample, f_start, f_end, f_loop, f_end)
    IN [st EXCEPT !.sample = smp,
                  !.pubs = Append(@, << f_start, f_end, f_loop, f_end >>)]

\* AudioFileProcessor::pointChanged
pointChanged(st) ==
    LET f_start == ToFrame(st.start, st.sample.frames)
        f_end   == ToFrame(st.end, st.sample.frames)
        f_loop  == ToFrame(st.loop, st.sample.frames)
        smp     == setAllPointFrames(st.sample, f_start, f_end, f_loop, f_end)
    IN [st EXCEPT !.nps = f_start, !.npb = FALSE, !.sample = smp,
                  !.pubs = Append(@, << f_start, f_end, f_loop, f_end >>)]

\* AutomatableModel::fittedValue for a model with range [0, 1].
fittedValue(v) == Max2(0, Min2(v, One))

RECURSIVE startPointChanged(_), loopPointChanged(_)

\* The one element of a one-element set.  A value that several later steps
\* read is bound once, as in { F(x) : x \in {e} }, the way a C++ statement
\* sequence computes it once.
Only(S) == CHOOSE x \in S : TRUE

\* A handler invocation, one level deeper; beyond MaxDepth the cascade is cut
\* and flagged.
Enter(st) == [st EXCEPT !.depth = @ + 1]
Leave(st) == [st EXCEPT !.depth = @ - 1]

\* m_startPointModel.setValue(v) on the instrument state st: dataChanged() is
\* emitted, and the directly connected slot runs (connect, lines 102-103),
\* only when the fitted value differs from the old one.
startSetValue(st, v) ==
    LET f == fittedValue(v) IN
    IF f = st.start \/ st.over THEN st
    ELSE IF st.depth >= MaxDepth THEN [st EXCEPT !.over = TRUE]
    ELSE Leave(startPointChanged(Enter([st EXCEPT !.start = f])))

setStartValue(stx, v) == Only({ startSetValue(st, v) : st \in {stx} })

\* Mutant: the end handler resolves no conflict.
endPointChanged_NoResolution(st) == pointChanged(st)

\* endPointChanged() is startPointChanged() ("same as start, for now").
endPointChanged(st) == startPointChanged(st)

\* m_endPointModel.setValue(v), connected to endPointChanged (lines 104-105).
endSetValue(st, v) ==
    LET f == fittedValue(v) IN
    IF f = st.end \/ st.over THEN st
    ELSE IF st.depth >= MaxDepth THEN [st EXCEPT !.over = TRUE]
    ELSE Leave(endPointChanged(Enter([st EXCEPT !.end = f])))

setEndValue(stx, v) == Only({ endSetValue(st, v) : st \in {stx} })

\* m_loopPointModel.setValue(v), connected to loopPointChanged (lines 106-107).
loopSetValue(st, v) ==
    LET f == fittedValue(v) IN
    IF f = st.loop \/ st.over THEN st
    ELSE IF st.depth >= MaxDepth THEN [st EXCEPT !.over = TRUE]
    ELSE Leave(loopPointChanged(Enter([st EXCEPT !.loop = f])))

setLoopValue(stx, v) == Only({ loopSetValue(st, v) : st \in {stx} })

\* startPointChanged, lines 370-376: check if start is over end and swap
\* values if so.  tmp and the argument of the first setValue are read before
\* any handler runs.
swapStartEnd(st) ==
    IF st.start > st.end
    THEN setStartValue(setEndValue(st, st.start), st.end)
    ELSE st

\* lines 378-382: nudge loop point with end
nudgeLoopWithEnd(st) ==
    IF st.loop >= st.end
    THEN setLoopValue(st, Max2(st.end - Eps, 0))
    ELSE st

\* lines 384-388: nudge loop point with start
nudgeLoopWithStart(st) ==
    IF st.loop < st.start
    THEN setLoopValue(st, st.start)
    ELSE st

\* Mutant: the overlap of start and end is left as it is.
nudgeEndUp_Skipped(st) == st

\* Mutant: the end point is nudged up whether or not it overlaps the start.
nudgeEndUp_Always(st) == setEndValue(st, Min2(st.end + Eps, One))

\* lines 390-394: check if start & end overlap and nudge end up if so
nudgeEndUp(st) ==
    IF st.start = st.end
    THEN setEndValue(st, Min2(st.end + Eps, One))
    ELSE st

startPointChanged(st0) ==
    Only({ pointChanged(st4) :
      st4 \in { nudgeEndUp(st3) :
        st3 \in { nudgeLoopWithStart(st2) :
          st2 \in { nudgeLoopWithEnd(st1) :
            st1 \in { swapStartEnd(st) : st \in {st0} } } } } })

\* Mutant: the loop point stays where it is when the end point is 1.0.
pullLoopBelowOne_Skipped(st) == st

\* loopPointChanged, lines 412-419: move the end point ahead of the loop
\* point, and the loop point back below an end point of 1.0.
pullLoopBelowOne(st) ==
    IF st.end = One THEN setLoopValue(st, One - Eps) ELSE st

pushEndWithLoop(st) ==
    IF st.loop >= st.end
    THEN Only({ pullLoopBelowOne(a) : a \in { setEndValue(st, st.loop + Eps) } })
    ELSE st

\* Mutant: the start point is left above the loop point.
nudgeStartWithLoop_Skipped(st) == st

\* lines 421-425: nudge start point with loop
nudgeStartWithLoop(st) ==
    IF st.loop < st.start
    THEN setStartValue(st, st.loop)
    ELSE st

loopPointChanged(st0) ==
    Only({ pointChanged(st2) :
      st2 \in { nudgeStartWithLoop(st1) :
        st1 \in { pushEndWithLoop(st) : st \in {st0} } } })

\* ------------------------------------------------------------ construction
\* Sample(): the empty buffer, all markers 0.
EmptySample == [frames |-> 0, startFrame |-> 0, endFrame |-> 0,
                loopStartFrame |-> 0, loopEndFrame |-> 0, reversed |-> FALSE]

\* Sample(buffer): markers span the whole buffer.
NewSample(n) == [frames |-> n, startFrame |-> 0, endFrame |-> n,
                 loopStartFrame |-> 0, loopEndFrame |-> n, reversed |-> FALSE]

NoteSlots == {1, 2}
\* The slot whose notes the playback specification follows next to the edits.
PlaySlots == {1}
\* m_pluginData of a new NotePlayHandle: nullptr.  id is the identity of the
\* PlaybackState pointed to (0: none).
NoData == [has |-> FALSE, id |-> 0, frameIndex |-> 0, backwards |-> FALSE]
\* exhausted records the note's history: "yes" once Sample::play reported
\* that the cursor is past the end with loop mode Off, "changed" once loop
\* mode, markers or sample were touched after that.
\* entered: a playNote call that was not a magic-key call has run for the note.
FreshNote == [m_pluginData |-> NoData, finished |-> FALSE, exhausted |-> "no",
              entered |-> FALSE]

\* new Sample::PlaybackState (line 162): an object distinct from every
\* allocated one; the identity of a deleted object can be handed out again.
newPlaybackState(live) ==
    CHOOSE i \in 1..(Cardinality(live) + 1) :
        i \notin live /\ \A j \in 1..(i - 1) : j \in live

\* Mutant: the PlaybackState is not deleted.
deleteNotePluginData_Leak(live, data) == live

\* deleteNotePluginData: delete _n->m_pluginData; deleting nullptr does
\* nothing.
deleteNotePluginData(live, data) ==
    IF data.has THEN live \ {data.id} ELSE live


\* Loop mode, markers or sample change while notes live.
Disturb(ns) ==
    [n \in DOMAIN ns |->
        IF ns[n].exhausted = "yes" THEN [ns[n] EXCEPT !.exhausted = "changed"]
        ELSE ns[n]]
\* No period was processed since the last event that moves the continuation
\* point (an edit, a toggle, a file load, a magic-key note).
NoCont == [valid |-> FALSE, frameIndex |-> 0, backwards |-> FALSE]

\* AudioFileProcessor::AudioFileProcessor: start 0, end 1, loop 0, stutter
\* and reverse off, loop mode 0, cursor 0 forward, then pointChanged().
InitAfp ==
    /\ m_startPointModel = 0
    /\ m_endPointModel = One
    /\ m_loopPointModel = 0
    /\ m_sample = EmptySample
    /\ m_nextPlayStartPoint = 0
    /\ m_nextPlayBackwards = FALSE
    /\ m_stutterModel = FALSE
    /\ m_loopModel = LoopOff
    /\ m_reverseModel = FALSE
    /\ notes = [n \in NoteSlots |-> FreshNote]
    /\ heap = {}
    /\ cascadeOver = FALSE
    /\ cont = NoCont
    /\ last = [op |-> "init"]

\* The fields a finished cascade leaves in the instrument.
Install(r) ==
    /\ m_startPointModel' = r.start
    /\ m_endPointModel' = r.end
    /\ m_loopPointModel' = r.loop
    /\ m_sample' = r.sample
    /\ m_nextPlayStartPoint' = r.nps
    /\ m_nextPlayBackwards' = r.npb
    /\ cascadeOver' = r.over

Triple == << m_startPointModel, m_endPointModel, m_loopPointModel >>

\* Where the value an editor sets lies relative to the points before the
\* edit.
relation(name, v) ==
    IF name = "setAudioFile" THEN "none"
    ELSE IF v >= m_endPointModel THEN "atOrAboveEnd"
    ELSE IF v < m_startPointModel THEN "belowStart"
    ELSE "inside"

EditRecord(name, v, r) ==
    [op |-> name, arg |-> v, ran |-> Len(r.pubs) > 0, rel |-> relation(name, v)]

\* An editor (knob, wave view) sets the start point model.
SetStart(v) ==
    /\ LET r == setStartValue(Cur, v)
       IN Install(r) /\ last' = EditRecord("setStart", v, r)
    /\ cont' = NoCont
    /\ notes' = Disturb(notes)
    /\ UNCHANGED << m_stutterModel, m_loopModel, m_reverseModel, heap >>
    /\ UNCHANGED << sdlVars, raceVars >>

SetEnd(v) ==
    /\ LET r == setEndValue(Cur, v)
       IN Install(r) /\ last' = EditRecord("setEnd", v, r)
    /\ cont' = NoCont
    /\ notes' = Disturb(notes)
    /\ UNCHANGED << m_stutterModel, m_loopModel, m_reverseModel, heap >>
    /\ UNCHANGED << sdlVars, raceVars >>

SetLoop(v) ==
    /\ LET r == setLoopValue(Cur, v)
       IN Install(r) /\ last' = EditRecord("setLoop", v, r)
    /\ cont' = NoCont
    /\ notes' = Disturb(notes)
    /\ UNCHANGED << m_stutterModel, m_loopModel, m_reverseModel, heap >>
    /\ UNCHANGED << sdlVars, raceVars >>

\* Mutant: the markers are not recomputed after the load.
setAudioFile_NoRecompute(st, n) == [st EXCEPT !.sample = NewSample(n)]

\* setAudioFile: a new Sample, then loopPointChanged() called directly.
setAudioFile(st, n) == loopPointChanged([st EXCEPT !.sample = NewSample(n)])

SetAudioFile(n) ==
    /\ LET r == setAudioFile(Cur, n)
       IN Install(r) /\ last' = EditRecord("setAudioFile", n, r)
    /\ cont' = NoCont
    /\ notes' = Disturb(notes)
    /\ UNCHANGED << m_stutterModel, m_loopModel, m_reverseModel, heap >>
    /\ UNCHANGED << sdlVars, raceVars >>

\* loadSettings, lines 232-243: what the "src" / "sampledata" attributes of
\* the element lead to.  "file": src names a file that exists; "missing": src
\* names a file that does not exist; "data": no src, sample data inline;
\* "none": neither.
SrcKinds == {"file", "missing", "data", "none"}

\* Line 238: the load error handed to the song.
collectsError(src) == src = "missing"

\* Lines 232-243: only an existing file or inline data replace m_sample.
loadSample(st, src, n) ==
    IF src = "file" THEN setAudioFile(st, n)
    ELSE IF src = "data" THEN [st EXCEPT !.sample = NewSample(n)]
    ELSE st

\* reverseModelChanged / stutterModelChanged on the record of the cascade.
reverseSetValue(st, old, new) ==
    IF new = old THEN st
    ELSE [st EXCEPT !.sample = [@ EXCEPT !.reversed = new],
                    !.nps = st.sample.startFrame, !.npb = FALSE]

stutterSetValue(st, old, new) ==
    IF new = old THEN st
    ELSE [st EXCEPT !.nps = st.sample.startFrame, !.npb = FALSE]

\* AudioFileProcessor::loadSettings: the sample, then the models in the order
\* of lines 245-262 (end before start, then loop), each with its change
\* handler, then pointChanged() (line 272).
loadSettings(st, src, n, e, s, l, revOld, rev, stuOld, stu) ==
    pointChanged(
      stutterSetValue(
        reverseSetValue(
          setLoopValue(setStartValue(setEndValue(loadSample(st, src, n), e), s), l),
          revOld, rev),
        stuOld, stu))

LoadSettings(src, n, e, s, l, mode, rev, stu) ==
    /\ LET r == loadSettings(Cur, src, n, e, s, l, m_reverseModel, rev,
                             m_stutterModel, stu)
       IN Install(r)
    /\ m_loopModel' = mode
    /\ m_reverseModel' = rev
    /\ m_stutterModel' = stu
    /\ last' = [op |-> "loadSettings", src |-> src, error |-> collectsError(src),
                looped |-> mode, reversed |-> rev, stutter |-> stu,
                end |-> e, held |-> m_sample.frames]
    /\ cont' = NoCont
    /\ notes' = Disturb(notes)
    /\ UNCHANGED heap
    /\ UNCHANGED << sdlVars, raceVars >>

\* ----------------------------------------------------- the wave view's slides
\* A double too large to be a point value or a sum of two: what a division
\* of a non-zero frame count by zero yields (+inf; its negative is -inf).
Inf == 4 * One

isInf(x) == x >= Inf \/ x <= -Inf

Abs(x) == IF x < 0 THEN -x ELSE x

\* 0.005 s (line 1263) in frames at 8 kHz; a higher sample rate raises it.
FiveMsFrames == 40

\* static_cast<double>(_frames) / m_sample->sampleSize(), lines 1142 and
\* 1163, for a frame count other than 0, on the grid.
framesOverSize(frames, size) ==
    IF size = 0 THEN (IF frames > 0 THEN Inf ELSE -Inf)
    ELSE IF frames >= 0 THEN (frames * One) \div size
    ELSE -((-frames * One) \div size)

Points == {"start", "end", "loop"}

pointValue(st, point) ==
    IF point = "start" THEN st.start
    ELSE IF point = "end" THEN st.end
    ELSE st.loop

\* setRelatedKnob, lines 1100-1104: start and end are related to each other,
\* the loop knob has no related knob.
hasRelatedKnob(point) == point # "loop"

relatedValue(st, point) == IF point = "start" THEN st.end ELSE st.start

\* knob::checkBound, lines 1244-1264.  d1 and d2 are kept in units of
\* frames x grid; with an infinite _v and a sample size of 0, d2 is inf * 0,
\* not a number, and both comparisons of line 1263 are false.
checkBound(st, point, v) ==
    IF ~hasRelatedKnob(point) THEN TRUE
    ELSE LET rel == relatedValue(st, point)
             cur == pointValue(st, point)
             d1  == Abs(rel - cur) * st.sample.frames
             d2  == Abs(rel - v) * st.sample.frames
         IN IF (rel - v > 0) # (rel - cur >= 0) THEN FALSE
            ELSE IF isInf(v) /\ st.sample.frames = 0 THEN FALSE
            ELSE d1 < d2 \/ d2 > FiveMsFrames * One

pointSetValue(st, point, v) ==
    IF point = "start" THEN setStartValue(st, v)
    ELSE IF point = "end" THEN setEndValue(st, v)
    ELSE setLoopValue(st, v)

\* knob::slideTo, lines 1219-1227.
slideTo(st, point, v, check_bound) ==
    IF check_bound /\ ~checkBound(st, point, v) THEN st
    ELSE pointSetValue(st, point, v)

\* knob::slideBy: slideTo(value + v).
slideBy(st, point, v, check_bound) ==
    slideTo(st, point, pointValue(st, point) + v, check_bound)

\* slideSamplePointByFrames, lines 1122-1152.
slideSamplePointByFrames(st, point, frames, slide_to) ==
    LET v == framesOverSize(frames, st.sample.frames) IN
    IF slide_to THEN slideTo(st, point, v, TRUE)
    ELSE slideBy(st, point, v, TRUE)

\* slideSampleByFrames, lines 1157-1178: nothing for a sample of at most one
\* frame; else the three knobs in an order that depends on the direction.
slideSampleByFrames(st, frames) ==
    LET v == framesOverSize(frames, st.sample.frames) IN
    IF st.sample.frames <= 1 THEN st
    ELSE IF v < 0
    THEN slideBy(slideBy(slideBy(st, "start", v, FALSE), "loop", v, FALSE),
                 "end", v, FALSE)
    ELSE slideBy(slideBy(slideBy(st, "end", v, FALSE), "loop", v, FALSE),
                 "start", v, FALSE)

\* What a slide saw and whether it divided by a frame count of 0.
SlideRecord(name, frames, divides) ==
    [op |-> name, frames |-> frames, size |-> m_sample.frames,
     divByZero |-> divides /\ m_sample.frames = 0,
     from |-> Triple,
     markers |-> << m_sample.startFrame, m_sample.endFrame,
                    m_sample.loopStartFrame, m_sample.loopEndFrame >>]

SlidePoint(point, frames, slide_to) ==
    /\ Install(slideSamplePointByFrames(Cur, point, frames, slide_to))
    /\ last' = SlideRecord("slidePoint", frames, TRUE)
    /\ cont' = NoCont
    /\ notes' = Disturb(notes)
    /\ UNCHANGED << m_stutterModel, m_loopModel, m_reverseModel, heap >>
    /\ UNCHANGED << sdlVars, raceVars >>

\* The division of line 1163 is behind the size test of line 1159.
SlideSample(frames) ==
    /\ Install(slideSampleByFrames(Cur, frames))
    /\ last' = SlideRecord("slideSample", frames, m_sample.frames > 1)
    /\ cont' = NoCont
    /\ notes' = Disturb(notes)
    /\ UNCHANGED << m_stutterModel, m_loopModel, m_reverseModel, heap >>
    /\ UNCHANGED << sdlVars, raceVars >>

\* ------------------------------------------------------------ Sample::play
\* The render call of the sample, for pitch ratio 1 and no interpolation:
\* one source frame per output frame.  A cursor is [frameIndex, backwards].
clampIndex(smp, idx) == Max2(smp.startFrame, Min2(idx, smp.endFrame))

\* The cursor after the frame at c.frameIndex was read.
advance(smp, mode, c) ==
    IF mode = LoopOff THEN [c EXCEPT !.frameIndex = @ + 1]
    ELSE IF mode = LoopOn
    THEN [c EXCEPT !.frameIndex = IF @ + 1 >= smp.endFrame
                                  THEN smp.loopStartFrame ELSE @ + 1]
    ELSE IF ~c.backwards
    THEN IF c.frameIndex + 1 >= smp.endFrame
         THEN [c EXCEPT !.frameIndex = Max2(smp.loopStartFrame, smp.endFrame - 2),
                        !.backwards = TRUE]
         ELSE [c EXCEPT !.frameIndex = @ + 1]
    ELSE IF c.frameIndex - 1 < smp.loopStartFrame
         THEN [c EXCEPT !.frameIndex = Min2(smp.loopStartFrame + 1, smp.endFrame - 1),
                        !.backwards = FALSE]
         ELSE [c EXCEPT !.frameIndex = @ - 1]

RECURSIVE render(_, _, _, _, _)
\* k more output frames from cursor c; reads are the source indices so far.
render(smp, mode, c, k, reads) ==
    IF k = 0 \/ c.frameIndex >= smp.endFrame \/ c.frameIndex < smp.startFrame
    THEN [cursor |-> c, reads |-> reads]
    ELSE render(smp, mode, advance(smp, mode, c), k - 1, Append(reads, c.frameIndex))

\* Sample::play(dst, state, frames, frequency, loopMode): the cursor is first
\* brought into [startFrame, endFrame]; a sample with no playable region, or
\* a cursor at the end with loop mode Off, produces nothing.
play(smp, c, frames, mode) ==
    LET c0 == [c EXCEPT !.frameIndex = clampIndex(smp, @)]
        c1 == IF mode # LoopOff /\ c0.frameIndex >= smp.endFrame
                 /\ smp.loopStartFrame < smp.endFrame
              THEN [c0 EXCEPT !.frameIndex =
                        IF mode = LoopOn THEN smp.loopStartFrame
                        ELSE smp.endFrame - 1,
                              !.backwards = (mode = LoopPingPong)]
              ELSE c0
        r  == render(smp, mode, c1, frames, << >>)
    IN IF smp.frames = 0 \/ smp.endFrame <= smp.startFrame
       THEN [ok |-> FALSE, cursor |-> c, reads |-> << >>]
       ELSE [ok |-> Len(r.reads) > 0, cursor |-> r.cursor, reads |-> r.reads]

\* ------------------------------------------------------------------ playNote
\* Mutant: the end-of-sample test is dropped.
noteStart_NoRestart(stutter, nps, npb, smp) == << nps, npb >>

\* Lines 141-147 and 163-164: where a note without PlaybackState starts.
\* << frame index, backwards >> handed to the new PlaybackState, which is also
\* what m_nextPlayStartPoint / m_nextPlayBackwards hold afterwards.
noteStart(stutter, nps, npb, smp) ==
    IF stutter /\ nps >= smp.endFrame
    THEN << smp.startFrame, FALSE >>
    ELSE << nps, npb >>

\* Mutant: no note is the magic key.
isMagicKey_Never(stutter, lowFreq) == FALSE

\* Line 132: the magic key.
isMagicKey(stutter, lowFreq) == stutter /\ lowFreq

\* Mutant: the cursor is not stored after the period.
persistCursor_Never(stutter, c, nps, npb) == << nps, npb >>

\* Mutant: the cursor is stored after the period in either mode.
persistCursor_Always(stutter, c, nps, npb) == << c.frameIndex, c.backwards >>

\* Lines 192-196: in stutter mode the PlaybackState's cursor and direction
\* become the continuation point.
persistCursor(stutter, c, nps, npb) ==
    IF stutter THEN << c.frameIndex, c.backwards >> ELSE << nps, npb >>

\* Mutant: every note is rendered with loop mode Off.
loopArgument_Off(model) == LoopOff

\* Mutant: loop mode PingPong is rendered as loop mode Loop.
loopArgument_NoPingPong(model) == IF model = 0 THEN LoopOff ELSE LoopOn

\* Line 176: static_cast<Sample::Loop>(m_loopModel.value()), the loop mode
\* handed to Sample::play.
loopArgument(model) ==
    IF model = 0 THEN LoopOff ELSE IF model = 1 THEN LoopOn ELSE LoopPingPong

\* AudioFileProcessor::playNote for note slot n, with frequency below 20 Hz
\* or not, for one period of `frames` frames.  The result names every field
\* the call writes and what it did to the working buffer.
playNote(n, lowFreq, frames) ==
    LET note    == notes[n]
        had     == note.m_pluginData.has
        st      == noteStart(m_stutterModel, m_nextPlayStartPoint,
                             m_nextPlayBackwards, m_sample)
        nps1    == IF had THEN m_nextPlayStartPoint ELSE st[1]
        npb1    == IF had THEN m_nextPlayBackwards ELSE st[2]
        c0      == IF had
                   THEN [frameIndex |-> note.m_pluginData.frameIndex,
                         backwards |-> note.m_pluginData.backwards]
                   ELSE [frameIndex |-> nps1, backwards |-> npb1]
        r       == play(m_sample, c0, frames, loopArgument(m_loopModel))
        c1      == IF note.finished THEN c0 ELSE r.cursor
        keep    == persistCursor(m_stutterModel, c1, nps1, npb1)
    IN IF isMagicKey(m_stutterModel, lowFreq)
       THEN [magic |-> TRUE, created |-> FALSE, given |-> << >>,
             played |-> FALSE, buffer |-> "unchanged",
             reads |-> << >>, exhausted |-> FALSE, from |-> c0.frameIndex,
             fromBackwards |-> c0.backwards,
             data |-> note.m_pluginData, heap |-> heap,
             nps |-> m_sample.startFrame, npb |-> FALSE]
       ELSE [magic |-> FALSE, created |-> ~had,
             given |-> IF had THEN << >> ELSE << nps1, npb1 >>,
             played |-> ~note.finished,
             buffer |-> IF note.finished THEN "unchanged"
                        ELSE IF r.ok THEN "audio" ELSE "zeroed",
             reads |-> IF note.finished THEN << >> ELSE r.reads,
             from |-> c0.frameIndex, fromBackwards |-> c0.backwards,
             exhausted |-> /\ ~note.finished
                           /\ ~r.ok
                           /\ m_loopModel = LoopOff
                           /\ c0.frameIndex >= m_sample.endFrame,
             data |-> [has |-> TRUE,
                       id |-> IF had THEN note.m_pluginData.id
                              ELSE newPlaybackState(heap),
                       frameIndex |-> c1.frameIndex,
                       backwards |-> c1.backwards],
             heap |-> IF had THEN heap ELSE heap \cup {newPlaybackState(heap)},
             nps |-> keep[1], npb |-> keep[2]]

\* The note after the period: its PlaybackState and its history.
noteAfter(note, r) ==
    [note EXCEPT !.m_pluginData = r.data,
                 !.exhausted = IF r.exhausted THEN "yes" ELSE @,
                 !.entered = @ \/ ~r.magic]

\* What a playNote call does, besides computing, that can make the audio
\* thread wait: line 162 allocates the PlaybackState with `new`.  The call
\* takes no lock and opens no file.
realtimeHazards(r) == IF r.created THEN {"allocate"} ELSE {}

PlayNote(n, lowFreq, frames) ==
    LET r == playNote(n, lowFreq, frames) IN
    /\ notes' = [notes EXCEPT ![n] = noteAfter(@, r)]
    /\ heap' = r.heap
    /\ m_nextPlayStartPoint' = r.nps
    /\ m_nextPlayBackwards' = r.npb
    /\ cont' = IF m_stutterModel /\ ~r.magic
               THEN [valid |-> TRUE, frameIndex |-> r.data.frameIndex,
                     backwards |-> r.data.backwards]
               ELSE NoCont
    /\ last' = [op |-> "playNote", n |-> n, lowFreq |-> lowFreq,
                had |-> notes[n].m_pluginData.has,
                created |-> r.created, given |-> r.given,
                hazards |-> realtimeHazards(r),
                played |-> r.played, buffer |-> r.buffer,
                from |-> IF r.created \/ lowFreq
                         THEN << m_nextPlayStartPoint, m_nextPlayBackwards >>
                         ELSE << >>,
                cont |-> IF r.created THEN cont ELSE NoCont]
    /\ UNCHANGED << m_startPointModel, m_endPointModel, m_loopPointModel,
                    m_sample, m_stutterModel, m_loopModel, m_reverseModel,
                    cascadeOver >>
    /\ UNCHANGED << sdlVars, raceVars >>

\* Largest noteOffset() of a period, in frames.
MaxOffset == 1

\* Mutant: the memset of line 184 starts at the period's offset.
workingBuffer_ZeroFromOffset(r, offset, frames) ==
    [i \in 1..(offset + frames) |->
        IF r.buffer = "unchanged" \/ i <= offset THEN Unwritten
        ELSE IF r.buffer = "zeroed" THEN 0
        ELSE IF i - offset <= Len(r.reads) THEN r.reads[i - offset] + 1
        ELSE 0]

\* The working buffer after playNote, frames 1..offset+frames: Sample::play
\* writes from _working_buffer + offset on (line 174; a source frame i is the
\* value i + 1, what play cannot fill is 0), the memset of line 184 zeroes
\* frames + offset frames from the buffer's start; frames nobody wrote hold
\* Unwritten.
workingBuffer(r, offset, frames) ==
    [i \in 1..(offset + frames) |->
        IF r.buffer = "unchanged" THEN Unwritten
        ELSE IF r.buffer = "zeroed" THEN 0
        ELSE IF i <= offset THEN Unwritten
        ELSE IF i - offset <= Len(r.reads) THEN r.reads[i - offset] + 1
        ELSE 0]

\* playNote for a period that starts `offset` frames into the working
\* buffer; as PlayNote, with the working buffer recorded.
PlayNoteAt(n, lowFreq, frames, offset) ==
    LET r == playNote(n, lowFreq, frames) IN
    /\ notes' = [notes EXCEPT ![n] = noteAfter(@, r)]
    /\ heap' = r.heap
    /\ m_nextPlayStartPoint' = r.nps
    /\ m_nextPlayBackwards' = r.npb
    /\ cont' = NoCont
    /\ last' = [op |-> "playNoteAt", n |-> n, lowFreq |-> lowFreq,
                played |-> r.played, exhausted |-> r.exhausted,
                was |-> notes[n].exhausted, offset |-> offset,
                frames |-> frames, steps |-> Len(r.reads),
                wb |-> workingBuffer(r, offset, frames)]
    /\ UNCHANGED << m_startPointModel, m_endPointModel, m_loopPointModel,
                    m_sample, m_stutterModel, m_loopModel, m_reverseModel,
                    cascadeOver >>
    /\ UNCHANGED << sdlVars, raceVars >>

\* playNote for one period of a note, with the source frames Sample::play
\* read, in order, and the cursor it started from and left behind recorded.
PlayPeriod(n, frames) ==
    LET r == playNote(n, FALSE, frames) IN
    /\ notes' = [notes EXCEPT ![n] = noteAfter(@, r)]
    /\ heap' = r.heap
    /\ m_nextPlayStartPoint' = r.nps
    /\ m_nextPlayBackwards' = r.npb
    /\ cont' = NoCont
    /\ last' = [op |-> "playPeriod", n |-> n, frames |-> frames,
                played |-> r.played, mode |-> m_loopModel,
                from |-> r.from, fromBackwards |-> r.fromBackwards,
                reads |-> r.reads,
                cursor |-> r.data.frameIndex,
                backwards |-> r.data.backwards,
                markers |-> << m_sample.startFrame, m_sample.endFrame,
                               m_sample.loopStartFrame,
                               m_sample.loopEndFrame >>]
    /\ UNCHANGED << m_startPointModel, m_endPointModel, m_loopPointModel,
                    m_sample, m_stutterModel, m_loopModel, m_reverseModel,
                    cascadeOver >>
    /\ UNCHANGED << sdlVars, raceVars >>

\* ------------------------------------------------------------------ beatLen
\* freqFactor (lines 301-303) as a fraction << numerator, denominator >>:
\* base frequency over note frequency, times processing rate over base rate.
FreqFactors == { << 1, 2 >>, << 1, 1 >>, << 3, 2 >> }

\* Mutant: the duration is counted from the continuation cursor in any case.
beatStartFrame_Cursor(nps, smp) == nps

\* Lines 305-307: the frame the duration is counted from.
beatStartFrame(nps, smp) == IF nps >= smp.endFrame THEN smp.startFrame ELSE nps

\* AudioFileProcessor::beatLen, lines 295-312: 0 when the sample loops,
\* otherwise floor(duration * freqFactor), converted to int.
beatLen(mode, nps, smp, factor) ==
    IF loopArgument(mode) # LoopOff THEN 0
    ELSE ((smp.endFrame - beatStartFrame(nps, smp)) * factor[1]) \div factor[2]

\* The note framework asks for the beat length of a note.
BeatLen(factor) ==
    /\ last' = [op |-> "beatLen", factor |-> factor,
                result |-> beatLen(m_loopModel, m_nextPlayStartPoint,
                                   m_sample, factor)]
    /\ cont' = NoCont
    /\ UNCHANGED << m_startPointModel, m_endPointModel, m_loopPointModel,
                    m_sample, m_nextPlayStartPoint, m_nextPlayBackwards,
                    m_stutterModel, m_loopModel, m_reverseModel, notes, heap,
                    cascadeOver >>
    /\ UNCHANGED << sdlVars, raceVars >>

\* The note framework marks the note finished (released and faded out).
FinishNote(n) ==
    /\ ~notes[n].finished
    /\ notes' = [notes EXCEPT ![n].finished = TRUE]
    /\ UNCHANGED << m_startPointModel, m_endPointModel, m_loopPointModel,
                    m_sample, m_nextPlayStartPoint, m_nextPlayBackwards,
                    m_stutterModel, m_loopModel, m_reverseModel,
                    cascadeOver, heap, cont, last >>
    /\ UNCHANGED << sdlVars, raceVars >>

\* deleteNotePluginData: the note is destroyed; the slot then holds a new
\* note with no PlaybackState.
DeleteNote(n) ==
    /\ notes[n] # FreshNote
    /\ notes' = [notes EXCEPT ![n] = FreshNote]
    /\ heap' = deleteNotePluginData(heap, notes[n].m_pluginData)
    /\ UNCHANGED << m_startPointModel, m_endPointModel, m_loopPointModel,
                    m_sample, m_nextPlayStartPoint, m_nextPlayBackwards,
                    m_stutterModel, m_loopModel, m_reverseModel,
                    cascadeOver, cont, last >>
    /\ UNCHANGED << sdlVars, raceVars >>

\* Mutant: the continuation point is left as it is.
resetContinuation_Kept(smp) == << m_nextPlayStartPoint, m_nextPlayBackwards >>

\* Lines 346-347 and 363-364: m_nextPlayStartPoint = m_sample.startFrame();
\* m_nextPlayBackwards = false.
resetContinuation(smp) == << smp.startFrame, FALSE >>

\* ------------------------------------------------------------------ toggles
\* reverseModelChanged, after m_reverseModel flipped.
ToggleReverse ==
    /\ m_reverseModel' = ~m_reverseModel
    /\ m_sample' = [m_sample EXCEPT !.reversed = ~m_reverseModel]
    /\ m_nextPlayStartPoint' = resetContinuation(m_sample')[1]
    /\ m_nextPlayBackwards' = resetContinuation(m_sample')[2]
    /\ cont' = NoCont
    /\ last' = [op |-> "reverse"]
    /\ notes' = Disturb(notes)
    /\ UNCHANGED << m_startPointModel, m_endPointModel, m_loopPointModel,
                    m_stutterModel, m_loopModel, cascadeOver, heap >>
    /\ UNCHANGED << sdlVars, raceVars >>

\* stutterModelChanged, after m_stutterModel flipped.
ToggleStutter ==
    /\ m_stutterModel' = ~m_stutterModel
    /\ m_nextPlayStartPoint' = resetContinuation(m_sample)[1]
    /\ m_nextPlayBackwards' = resetContinuation(m_sample)[2]
    /\ cont' = NoCont
    /\ last' = [op |-> "stutter"]
    /\ UNCHANGED << m_startPointModel, m_endPointModel, m_loopPointModel,
                    m_sample, m_reverseModel, m_loopModel, notes, heap, cascadeOver >>
    /\ UNCHANGED << sdlVars, raceVars >>

\* m_loopModel has no change handler connected.
SetLoopMode(mode) ==
    /\ mode # m_loopModel
    /\ m_loopModel' = mode
    /\ last' = [op |-> "loopMode"]
    /\ notes' = Disturb(notes)
    /\ UNCHANGED << m_startPointModel, m_endPointModel, m_loopPointModel,
                    m_sample, m_nextPlayStartPoint, m_nextPlayBackwards,
                    m_stutterModel, m_reverseModel, cascadeOver, heap, cont >>
    /\ UNCHANGED << sdlVars, raceVars >>


\* ------------------------------------------------------------------ AudioSdl
\* Bounds of the device model.
\* Largest callback length, in frames (_len / sizeof(sampleFrame)).
MaxCallbackFrames == 3
\* Largest number of frames one getNextBuffer call returns.
MaxEngineFrames == 2
\* Frames the engine hands out in total before it only reports "nothing".
MaxPulled == 4
\* Largest master gain (gains are 0..MaxGain; 1 is unity).
MaxGain == 2

Gains == 0..MaxGain

\* copied counts the frames of the span that were copied from the scratch
\* buffer, lead those of them copied before the invocation's first pull (the
\* rest of a period pulled by an earlier invocation); base is the number of
\* engine frames handed to the device before this invocation.
\* iters counts the passes through the body of the while loop.
CbIdle == [pc |-> "idle", len |-> 0, buf |-> << >>, wp |-> 0,
           underrun |-> FALSE, underrunAt |-> 0, calledEngine |-> FALSE,
           copied |-> 0, lead |-> 0, base |-> 0, iters |-> 0]

\* Engine frames already written to the device: all frames pulled, less those
\* still waiting in the scratch buffer.
framesHandedOut ==
    IF m_currentBufferFramePos = 0 THEN pulled
    ELSE pulled - (m_currentBufferFramesCount - m_currentBufferFramePos)

\* What SDL answers to the constructor: SDL_Init (line 56), the opening of
\* the output device (81 / 92) and, in the SDL2 build, of the capture device
\* (111).  A call that is not reached has no answer.
CtorOutcomes(sdl2) ==
    { o \in [initOk : BOOLEAN, openOk : BOOLEAN, captureOk : BOOLEAN] :
        /\ o.openOk => o.initOk
        /\ o.captureOk => (o.openOk /\ sdl2) }

\* Mutant: the flag is set once SDL is initialised.
successFlag_AfterInit(o) == o.initOk

\* _success_ful: false at line 44, true at line 102, which the returns of
\* lines 59 and 88 / 95 skip.
successFlag(o) == o.initOk /\ o.openOk

\* The resources the constructor holds when it returns, in the order it got
\* them: m_outBuf (42), m_convertedBuf (53, non-SDL2), the SDL subsystem (56),
\* the output device (81 / 92), the capture device (111, SDL2).
acquiredBy(sdl2, o) ==
    << "outBuf" >>
    \o (IF sdl2 THEN << >> ELSE << "convertedBuf" >>)
    \o (IF o.initOk THEN << "sdl" >> ELSE << >>)
    \o (IF o.openOk THEN << "output" >> ELSE << >>)
    \o (IF o.captureOk THEN << "input" >> ELSE << >>)

\* ~AudioSdl after stopProcessing, lines 133-145: what is released, in order.
\* The SDL2 build closes the devices it holds; the other build calls
\* SDL_CloseAudio in any case; SDL_Quit is called in any case.
releasedBy(sdl2, inputDevice, outputDevice) ==
    IF sdl2
    THEN (IF inputDevice # 0 THEN << "input" >> ELSE << >>)
         \o (IF outputDevice # 0 THEN << "output" >> ELSE << >>)
         \o << "sdl", "outBuf" >>
    ELSE << "output", "convertedBuf", "sdl", "outBuf" >>

\* The device as the constructor leaves it.  phase: "alive", "dtor" (inside
\* the destructor's stopProcessing) or "gone"; started: a startProcessing
\* call has returned.
Constructed(sdl2, o) ==
    [success |-> successFlag(o), init |-> o.initOk,
     acquired |-> acquiredBy(sdl2, o), released |-> << >>,
     inputDevice |-> IF o.captureOk THEN 1 ELSE 0,
     phase |-> "alive", started |-> FALSE, stoppedFirst |-> FALSE,
     underran |-> FALSE]

\* AudioSdl::AudioSdl.  m_stopped is not initialised by the constructor; SDL
\* opens a device paused.  The scratch position and count start at 0 (in the
\* non-SDL2 build m_convertedBufSize starts at one period; it is overwritten
\* by the first pull before it is read with a non-zero position).  An output
\* device that was not opened is 0: no handle that SDL accepts.
InitSdl ==
    /\ have_sdl2 \in BOOLEAN
    /\ \E o \in CtorOutcomes(have_sdl2) :
          /\ backend = Constructed(have_sdl2, o)
          /\ m_outputDevice = IF o.openOk THEN 1 ELSE 0
    /\ m_stopped \in BOOLEAN
    /\ sdl_paused = TRUE
    /\ sdl_lock = "free"
    /\ ctl_pc = "idle"
    /\ stopReturned = FALSE
    /\ cb = CbIdle
    /\ m_currentBufferFramePos = 0
    /\ m_currentBufferFramesCount = 0
    /\ m_outBuf = << >>
    /\ pulled = 0
    /\ masterGain = 1

\* SDL_GetAudioDeviceStatus / SDL_GetAudioStatus
audioStatus == IF m_outputDevice = 0 THEN "stopped"
               ELSE IF sdl_paused THEN "paused" ELSE "playing"

\* Mutant: stopProcessing acts whatever the status.
stopNeeded_Always(status) == TRUE

\* Mutant: the status test is inverted.
stopNeeded_Inverted(status) == status # "playing"

\* Lines 169-172: stopProcessing acts only on a playing device.
stopNeeded(status) == status = "playing"

\* startProcessing, line 153: m_stopped = false, with no lock taken.
StartSetFlag ==
    /\ backend.phase = "alive"
    /\ ctl_pc = "idle"
    /\ m_stopped' = FALSE
    /\ backend' = [backend EXCEPT !.underran = FALSE]
    /\ stopReturned' = FALSE
    /\ ctl_pc' = "start_unpause"
    /\ UNCHANGED << have_sdl2, m_outputDevice, sdl_paused, sdl_lock, cb,
                    m_currentBufferFramePos, m_currentBufferFramesCount,
                    m_outBuf, pulled, masterGain >>
    /\ UNCHANGED << afpVars, raceVars >>

\* startProcessing, lines 155-160: SDL_PauseAudioDevice(dev, 0), which takes
\* the device lock itself; an invalid device is ignored.
StartUnpause ==
    /\ ctl_pc = "start_unpause"
    /\ sdl_lock = "free"
    /\ sdl_paused' = IF m_outputDevice = 0 THEN sdl_paused ELSE FALSE
    /\ ctl_pc' = "idle"
    /\ backend' = [backend EXCEPT !.started = TRUE]
    /\ UNCHANGED << have_sdl2, m_outputDevice, m_stopped, sdl_lock, stopReturned,
                    cb, m_currentBufferFramePos, m_currentBufferFramesCount,
                    m_outBuf, pulled, masterGain >>
    /\ UNCHANGED << afpVars, raceVars >>

\* stopProcessing, lines 169-173: the status check; a device that is not
\* playing makes the call return at once.
StopCheck ==
    /\ backend.phase = "alive"
    /\ ctl_pc = "idle"
    /\ IF stopNeeded(audioStatus)
       THEN ctl_pc' = "stop_lock" /\ UNCHANGED stopReturned
       ELSE ctl_pc' = "idle" /\ stopReturned' = TRUE
    /\ UNCHANGED << have_sdl2, backend, m_outputDevice, m_stopped, sdl_paused, sdl_lock,
                    cb, m_currentBufferFramePos, m_currentBufferFramesCount,
                    m_outBuf, pulled, masterGain >>
    /\ UNCHANGED << afpVars, raceVars >>

\* SDL_LockAudioDevice / SDL_LockAudio: waits for a running callback.
StopLock ==
    /\ ctl_pc = "stop_lock"
    /\ sdl_lock = "free"
    /\ sdl_lock' = "ctl"
    /\ ctl_pc' = "stop_flag"
    /\ UNCHANGED << have_sdl2, backend, m_outputDevice, m_stopped, sdl_paused,
                    stopReturned, cb, m_currentBufferFramePos,
                    m_currentBufferFramesCount, m_outBuf, pulled, masterGain >>
    /\ UNCHANGED << afpVars, raceVars >>

\* m_stopped = true, lines 178 / 187.
StopSetFlag ==
    /\ ctl_pc = "stop_flag"
    /\ m_stopped' = TRUE
    /\ ctl_pc' = "stop_pause"
    /\ UNCHANGED << have_sdl2, backend, m_outputDevice, sdl_paused, sdl_lock,
                    stopReturned, cb, m_currentBufferFramePos,
                    m_currentBufferFramesCount, m_outBuf, pulled, masterGain >>
    /\ UNCHANGED << afpVars, raceVars >>

\* SDL_PauseAudioDevice(dev, 1) / SDL_PauseAudio(1), lines 180-181 / 188.
StopPause ==
    /\ ctl_pc = "stop_pause"
    /\ sdl_paused' = TRUE
    /\ ctl_pc' = "stop_unlock"
    /\ UNCHANGED << have_sdl2, backend, m_outputDevice, m_stopped, sdl_lock,
                    stopReturned, cb, m_currentBufferFramePos,
                    m_currentBufferFramesCount, m_outBuf, pulled, masterGain >>
    /\ UNCHANGED << afpVars, raceVars >>

\* SDL_UnlockAudioDevice / SDL_UnlockAudio, then the call returns.
StopUnlock ==
    /\ ctl_pc = "stop_unlock"
    /\ sdl_lock' = "free"
    /\ ctl_pc' = "idle"
    /\ stopReturned' = TRUE
    /\ UNCHANGED << have_sdl2, backend, m_outputDevice, m_stopped, sdl_paused, cb,
                    m_currentBufferFramePos, m_currentBufferFramesCount,
                    m_outBuf, pulled, masterGain >>
    /\ UNCHANGED << afpVars, raceVars >>

\* ~AudioSdl, line 131: the destructor calls stopProcessing; this is that
\* call's status check.
DtorStop ==
    /\ backend.phase = "alive"
    /\ ctl_pc = "idle"
    /\ backend' = [backend EXCEPT !.phase = "dtor"]
    /\ IF stopNeeded(audioStatus)
       THEN ctl_pc' = "stop_lock" /\ UNCHANGED stopReturned
       ELSE ctl_pc' = "idle" /\ stopReturned' = TRUE
    /\ UNCHANGED << have_sdl2, m_outputDevice, m_stopped, sdl_paused, sdl_lock,
                    cb, m_currentBufferFramePos, m_currentBufferFramesCount,
                    m_outBuf, pulled, masterGain >>
    /\ UNCHANGED << afpVars, raceVars >>

\* ~AudioSdl, lines 133-145, once its stopProcessing has returned: devices
\* closed, SDL quit, buffers deleted.
DtorRelease ==
    /\ backend.phase = "dtor"
    /\ ctl_pc = "idle"
    /\ backend' = [backend EXCEPT
                      !.phase = "gone",
                      !.stoppedFirst = stopReturned /\ audioStatus # "playing",
                      !.released = releasedBy(have_sdl2, backend.inputDevice,
                                              m_outputDevice),
                      !.inputDevice = 0]
    /\ m_outputDevice' = 0
    /\ UNCHANGED << have_sdl2, m_stopped, sdl_paused, sdl_lock, ctl_pc,
                    stopReturned, cb, m_currentBufferFramePos,
                    m_currentBufferFramesCount, m_outBuf, pulled, masterGain >>
    /\ UNCHANGED << afpVars, raceVars >>

\* The engine's master gain is changed from outside the device.
SetMasterGain(g) ==
    /\ g # masterGain
    /\ cb.pc = "idle"
    /\ masterGain' = g
    /\ UNCHANGED << have_sdl2, backend, m_outputDevice, m_stopped, sdl_paused, sdl_lock,
                    ctl_pc, stopReturned, cb, m_currentBufferFramePos,
                    m_currentBufferFramesCount, m_outBuf, pulled >>
    /\ UNCHANGED << afpVars, raceVars >>

\* SDL's audio thread invokes the callback for a span of len frames: only on
\* an open, unpaused device, and with the device lock held for its duration.
CbEnter(len) ==
    /\ cb.pc = "idle"
    /\ m_outputDevice # 0
    /\ ~sdl_paused
    /\ sdl_lock = "free"
    /\ sdl_lock' = "cb"
    /\ cb' = [CbIdle EXCEPT !.pc = "entered", !.len = len,
                            !.buf = [i \in 1..len |-> Unwritten],
                            !.base = framesHandedOut]
    /\ UNCHANGED << have_sdl2, backend, m_outputDevice, m_stopped, sdl_paused, ctl_pc,
                    stopReturned, m_currentBufferFramePos,
                    m_currentBufferFramesCount, m_outBuf, pulled, masterGain >>
    /\ UNCHANGED << afpVars, raceVars >>

\* Mutant: only the first remaining frame is zeroed.
memsetZero_OneFrame(c) ==
    [c EXCEPT !.buf = [i \in 1..Len(@) |-> IF i = c.wp + 1 THEN 0 ELSE @[i]],
              !.wp = Len(c.buf), !.len = 0]

\* memset(_buf, 0, _len): zeroes the span from the write position on.
memsetZero(c) ==
    [c EXCEPT !.buf = [i \in 1..Len(@) |-> IF i > c.wp THEN 0 ELSE @[i]],
              !.wp = Len(c.buf), !.len = 0]

\* Lines 238-242.
CbCheckStopped ==
    /\ cb.pc = "entered"
    /\ cb' = IF m_stopped
             THEN [memsetZero(cb) EXCEPT !.pc = "done"]
             ELSE [cb EXCEPT !.pc = "loop"]
    /\ UNCHANGED << have_sdl2, backend, m_outputDevice, m_stopped, sdl_paused, sdl_lock,
                    ctl_pc, stopReturned, m_currentBufferFramePos,
                    m_currentBufferFramesCount, m_outBuf, pulled, masterGain >>
    /\ UNCHANGED << afpVars, raceVars >>

\* The frames of one engine period: consecutive non-zero frame numbers.
engineFrames(first, n) == [i \in 1..n |-> first + i]

\* Mutant: the gain is ignored.
applyGain_Ignored(v, g) == v

\* Mutant: the gain is applied twice.
applyGain_Twice(v, g) == v * g * g

\* Scaling of a frame value by the gain.
applyGain(v, g) == v * g

\* Mutant: the frames are taken from the start of the scratch buffer.
copyOut_FromStart(c, scratch, pos, n, gainNow) ==
    LET scaled == [i \in 1..Len(scratch) |->
                      IF gainNow /\ i <= n
                      THEN applyGain(scratch[i], masterGain) ELSE scratch[i]]
    IN [scratch |-> scaled,
        c |-> [c EXCEPT !.buf = [i \in 1..Len(@) |->
                                    IF i > c.wp /\ i <= c.wp + n
                                    THEN scaled[i - c.wp] ELSE @[i]],
                        !.wp = @ + n, !.len = @ - n, !.copied = @ + n]]

\* Lines 260-276 (SDL2) and 299-305: copy `n` frames from scratch position
\* pos to the output; in the SDL2 build the gain is applied, in place, to
\* exactly the frames being copied.
copyOut(c, scratch, pos, n, gainNow) ==
    LET scaled == [i \in 1..Len(scratch) |->
                      IF gainNow /\ i > pos /\ i <= pos + n
                      THEN applyGain(scratch[i], masterGain) ELSE scratch[i]]
    IN [scratch |-> scaled,
        c |-> [c EXCEPT !.buf = [i \in 1..Len(@) |->
                                    IF i > c.wp /\ i <= c.wp + n
                                    THEN scaled[pos + (i - c.wp)] ELSE @[i]],
                        !.wp = @ + n, !.len = @ - n, !.copied = @ + n]]

\* Mutant: the remaining length of the span is not looked at.
minFramesCount_IgnoreLen(len, avail) == avail

\* Lines 260-262 / 299-300: the frames one pass copies, the smaller of what
\* the span still needs and what the scratch buffer still holds.
minFramesCount(len, avail) == Min2(len, avail)

\* Mutant: a pull of 0 frames stops the device in both builds.
underrunStops_Always(sdl2) == TRUE

\* Mutant: a pull of 0 frames stops the device in neither build.
underrunStops_Never(sdl2) == FALSE

\* Lines 252-256 and 285-290: when getNextBuffer returns 0 frames the
\* non-SDL2 build sets m_stopped = true (287), the SDL2 build does not.
underrunStops(sdl2) == ~sdl2

\* Mutant: the position is not wrapped.
nextFramePos_NoWrap(pos, n, count) == pos + n

\* Lines 274-276 / 304-305: the read position after n frames were copied,
\* back at 0 when the period is used up.
nextFramePos(pos, n, count) == (pos + n) % count

\* One iteration of the while loop that pulls (position 0) and gets `frames`
\* frames from getNextBuffer.
CbIterate(frames) ==
    /\ cb.pc = "loop"
    /\ cb.len > 0
    /\ IF m_currentBufferFramePos = 0
       THEN /\ pulled + frames <= MaxPulled
            /\ IF frames = 0
               THEN /\ cb' = [memsetZero(cb) EXCEPT !.pc = "done",
                                 !.underrun = TRUE, !.underrunAt = cb.wp,
                                 !.calledEngine = TRUE, !.iters = @ + 1]
                    /\ m_stopped' = IF underrunStops(have_sdl2) THEN TRUE
                                    ELSE m_stopped
                    /\ UNCHANGED << m_currentBufferFramePos,
                                    m_currentBufferFramesCount, m_outBuf, pulled >>
               ELSE LET fresh == engineFrames(pulled, frames)
                        \* non-SDL2: convertToS16 applies the gain to the
                        \* whole period at once
                        conv  == IF have_sdl2 THEN fresh
                                 ELSE [i \in 1..frames |->
                                          applyGain(fresh[i], masterGain)]
                        n     == minFramesCount(cb.len, frames)
                        r     == copyOut([cb EXCEPT !.calledEngine = TRUE,
                                                    !.iters = @ + 1],
                                         conv, 0, n, have_sdl2)
                    IN /\ cb' = r.c
                       /\ m_outBuf' = r.scratch
                       /\ m_currentBufferFramesCount' = frames
                       /\ m_currentBufferFramePos' = nextFramePos(0, n, frames)
                       /\ pulled' = pulled + frames
                       /\ UNCHANGED m_stopped
       ELSE /\ frames = 0
            /\ LET n == minFramesCount(cb.len, m_currentBufferFramesCount
                                                 - m_currentBufferFramePos)
                   r == copyOut(cb, m_outBuf, m_currentBufferFramePos, n, have_sdl2)
               IN /\ cb' = [r.c EXCEPT !.lead = IF cb.calledEngine THEN @ ELSE @ + n,
                                       !.iters = @ + 1]
                  /\ m_outBuf' = r.scratch
                  /\ m_currentBufferFramePos' =
                        nextFramePos(m_currentBufferFramePos, n,
                                     m_currentBufferFramesCount)
            /\ UNCHANGED << m_currentBufferFramesCount, pulled, m_stopped >>
    /\ backend' = IF m_currentBufferFramePos = 0 /\ frames = 0
                  THEN [backend EXCEPT !.underran = TRUE]
                  ELSE backend
    /\ UNCHANGED << have_sdl2, m_outputDevice, sdl_paused, sdl_lock, ctl_pc,
                    stopReturned, masterGain >>
    /\ UNCHANGED << afpVars, raceVars >>

\* while( _len ) ends.
CbLoopEnd ==
    /\ cb.pc = "loop"
    /\ cb.len = 0
    /\ cb' = [cb EXCEPT !.pc = "done"]
    /\ UNCHANGED << have_sdl2, backend, m_outputDevice, m_stopped, sdl_paused, sdl_lock,
                    ctl_pc, stopReturned, m_currentBufferFramePos,
                    m_currentBufferFramesCount, m_outBuf, pulled, masterGain >>
    /\ UNCHANGED << afpVars, raceVars >>

\* The callback returns; SDL releases the device lock and plays cb.buf.
CbReturn ==
    /\ cb.pc = "done"
    /\ sdl_lock' = "free"
    /\ cb' = CbIdle
    /\ UNCHANGED << have_sdl2, backend, m_outputDevice, m_stopped, sdl_paused, ctl_pc,
                    stopReturned, m_currentBufferFramePos,
                    m_currentBufferFramesCount, m_outBuf, pulled, masterGain >>
    /\ UNCHANGED << afpVars, raceVars >>

NextSdl ==
    \/ StartSetFlag
    \/ StartUnpause
    \/ StopCheck
    \/ StopLock
    \/ StopSetFlag
    \/ StopPause
    \/ StopUnlock
    \/ DtorStop
    \/ DtorRelease
    \/ \E g \in Gains : SetMasterGain(g)
    \/ \E len \in 1..MaxCallbackFrames : CbEnter(len)
    \/ CbCheckStopped
    \/ \E frames \in 0..MaxEngineFrames : CbIterate(frames)
    \/ CbLoopEnd
    \/ CbReturn


\* ------------------------------------------- one edit, seen from two threads
\* The four frame markers of a sample, as setAllPointFrames receives them.
markerGroup(smp) ==
    << smp.startFrame, smp.endFrame, smp.loopStartFrame, smp.loopEndFrame >>

\* edits counts the edits that overlap the playNote call in progress (at most 2
\* are told apart).
AuIdle == [pc |-> "idle", endSeen |-> 0, edits |-> 0]

\* The instrument after setAudioFile loaded a sample of MaxFrames frames into
\* the constructed instrument and stutter mode was switched on.
InitAfpLoaded ==
    /\ m_startPointModel = 0
    /\ m_endPointModel = One
    /\ m_loopPointModel = 0
    /\ m_sample = NewSample(MaxFrames)
    /\ m_nextPlayStartPoint = 0
    /\ m_nextPlayBackwards = FALSE
    /\ m_stutterModel = TRUE
    /\ m_loopModel = LoopOff
    /\ m_reverseModel = FALSE
    /\ notes = [n \in NoteSlots |-> FreshNote]
    /\ heap = {}
    /\ cascadeOver = FALSE
    /\ cont = NoCont
    /\ last = [op |-> "stutter"]

\* The control thread is inside an edit or a file load.
editing == ed.pending # << >> \/ ed.assign # << >>

\* The control thread starts an edit: the point model is set and the handler
\* cascade begins.  The cascade's calls of pointChanged, innermost first, are
\* the groups in ed.pending; the audio thread cannot see the point models.
editResult(op, v) ==
    IF op = "setStart" THEN setStartValue(Cur, v)
    ELSE IF op = "setEnd" THEN setEndValue(Cur, v)
    ELSE setLoopValue(Cur, v)

RaceBegin(op, v) ==
    /\ ed.pending = << >>
    /\ LET r == editResult(op, v) IN
       /\ Len(r.pubs) > 0
       /\ m_startPointModel' = r.start
       /\ m_endPointModel' = r.end
       /\ m_loopPointModel' = r.loop
       /\ cascadeOver' = r.over
       /\ ed' = [pending |-> r.pubs, assign |-> << >>, size |-> m_sample.frames,
                 pre |-> markerGroup(m_sample), post |-> r.pubs[Len(r.pubs)],
                 preFrames |-> m_sample.frames, postFrames |-> m_sample.frames]
    /\ au' = IF au.pc = "idle" THEN au
             ELSE [au EXCEPT !.edits = Min2(@ + 1, 2)]
    /\ UNCHANGED << m_sample, m_nextPlayStartPoint, m_nextPlayBackwards,
                    m_stutterModel, m_loopModel, m_reverseModel, notes, heap, cont,
                    last, obs >>
    /\ UNCHANGED sdlVars

\* One pointChanged of the cascade, lines 436-439: the continuation point and
\* then the four markers, handed to the sample as one group.
RacePublish ==
    /\ ed.assign = << >>
    /\ ed.pending # << >>
    /\ LET g == Head(ed.pending) IN
       /\ m_nextPlayStartPoint' = g[1]
       /\ m_nextPlayBackwards' = FALSE
       /\ m_sample' = setAllPointFrames(m_sample, g[1], g[2], g[3], g[4])
    /\ ed' = [ed EXCEPT !.pending = Tail(@)]
    /\ UNCHANGED << m_startPointModel, m_endPointModel, m_loopPointModel,
                    m_stutterModel, m_loopModel, m_reverseModel, notes, heap,
                    cascadeOver, cont, last, au, obs >>
    /\ UNCHANGED sdlVars

\* playNote for a new note, line 141: with stutter on, endFrame() is read
\* and compared with the continuation point.
AudioCheck ==
    /\ au.pc = "idle"
    /\ m_stutterModel
    /\ au' = [pc |-> IF m_nextPlayStartPoint >= m_sample.endFrame
                     THEN "restart" ELSE "render",
              endSeen |-> m_sample.endFrame,
              edits |-> IF editing THEN 1 ELSE 0]
    /\ UNCHANGED << m_startPointModel, m_endPointModel, m_loopPointModel,
                    m_sample, m_nextPlayStartPoint, m_nextPlayBackwards,
                    m_stutterModel, m_loopModel, m_reverseModel, notes, heap,
                    cascadeOver, cont, last, ed, obs >>
    /\ UNCHANGED sdlVars

\* Lines 145-146: startFrame() is read; together with the end frame read at
\* line 141 it is the region the restart decision was taken for.
AudioRestart ==
    /\ au.pc = "restart"
    /\ m_nextPlayStartPoint' = m_sample.startFrame
    /\ m_nextPlayBackwards' = FALSE
    /\ obs' = [kind |-> "startEnd", edits |-> au.edits,
               group |-> << m_sample.startFrame, au.endSeen >>,
               frames |-> m_sample.frames,
               preFrames |-> ed.preFrames, postFrames |-> ed.postFrames,
               pre |-> << ed.pre[1], ed.pre[2] >>,
               post |-> << ed.post[1], ed.post[2] >>]
    /\ au' = [au EXCEPT !.pc = "render"]
    /\ UNCHANGED << m_startPointModel, m_endPointModel, m_loopPointModel,
                    m_sample, m_stutterModel, m_loopModel, m_reverseModel,
                    notes, heap, cascadeOver, cont, last, ed >>
    /\ UNCHANGED sdlVars

\* Lines 162-196: the PlaybackState is created at the continuation point,
\* Sample::play reads the sample's markers and renders, and the cursor is
\* stored for the next note.  The note ends with this period.
AudioRender(frames) ==
    /\ au.pc = "render"
    /\ LET r == play(m_sample,
                     [frameIndex |-> m_nextPlayStartPoint,
                      backwards |-> m_nextPlayBackwards],
                     frames, m_loopModel)
       IN /\ m_nextPlayStartPoint' = r.cursor.frameIndex
          /\ m_nextPlayBackwards' = r.cursor.backwards
    /\ obs' = [kind |-> "group", edits |-> IF editing THEN 1 ELSE 0,
               group |-> markerGroup(m_sample), frames |-> m_sample.frames,
               preFrames |-> ed.preFrames, postFrames |-> ed.postFrames,
               pre |-> ed.pre, post |-> ed.post]
    /\ au' = AuIdle
    /\ UNCHANGED << m_startPointModel, m_endPointModel, m_loopPointModel,
                    m_sample, m_stutterModel, m_loopModel, m_reverseModel,
                    notes, heap, cascadeOver, cont, last, ed >>
    /\ UNCHANGED sdlVars

\* setAudioFile on the control thread, line 335: m_sample is a member object,
\* not a pointer, and `m_sample = Sample(...)` assigns it member by member
\* with no lock held.  The frame buffer and the markers are the two parts the
\* audio thread reads; the order in which the assignment stores them is not
\* fixed by the source, so both orders are followed.
AssignOrders == { << "buffer", "markers" >>, << "markers", "buffer" >> }

\* The load begins; what loopPointChanged (line 336) will hand to the sample
\* afterwards waits in ed.pending.
LoadBegin(n, order) ==
    /\ ~editing
    /\ LET r == setAudioFile(Cur, n) IN
       /\ m_startPointModel' = r.start
       /\ m_endPointModel' = r.end
       /\ m_loopPointModel' = r.loop
       /\ cascadeOver' = r.over
       /\ ed' = [pending |-> r.pubs, assign |-> order, size |-> n,
                 pre |-> markerGroup(m_sample), post |-> markerGroup(r.sample),
                 preFrames |-> m_sample.frames, postFrames |-> n]
    /\ au' = IF au.pc = "idle" THEN au
             ELSE [au EXCEPT !.edits = Min2(@ + 1, 2)]
    /\ UNCHANGED << m_sample, m_nextPlayStartPoint, m_nextPlayBackwards,
                    m_stutterModel, m_loopModel, m_reverseModel, notes, heap,
                    cont, last, obs >>
    /\ UNCHANGED sdlVars

\* One part of the assignment of line 335 is stored.
LoadAssign ==
    /\ ed.assign # << >>
    /\ m_sample' = IF Head(ed.assign) = "buffer"
                   THEN [m_sample EXCEPT !.frames = ed.size, !.reversed = FALSE]
                   ELSE setAllPointFrames(m_sample, 0, ed.size, 0, ed.size)
    /\ ed' = [ed EXCEPT !.assign = Tail(@)]
    /\ UNCHANGED << m_startPointModel, m_endPointModel, m_loopPointModel,
                    m_nextPlayStartPoint, m_nextPlayBackwards, m_stutterModel,
                    m_loopModel, m_reverseModel, notes, heap, cascadeOver, cont,
                    last, au, obs >>
    /\ UNCHANGED sdlVars

NextLoad ==
    \/ \E n \in SampleSizes, order \in AssignOrders : LoadBegin(n, order)
    \/ LoadAssign
    \/ RacePublish
    \/ AudioCheck
    \/ AudioRestart
    \/ \E frames \in 1..MaxPeriodFrames : AudioRender(frames)

NextRace ==
    \/ \E op \in {"setStart", "setEnd", "setLoop"}, v \in PlayVals : RaceBegin(op, v)
    \/ RacePublish
    \/ AudioCheck
    \/ AudioRestart
    \/ \E frames \in 1..MaxPeriodFrames : AudioRender(frames)


vars == << afpVars, sdlVars, raceVars >>

\* Each specification follows one of the two components and leaves the other
\* in a constructed state.  For the instrument's specifications the device
\* is the one of an SDL2 build whose output device opened.
InitSdlOpened ==
    /\ InitSdl
    /\ have_sdl2
    /\ m_outputDevice = 1
    /\ backend.inputDevice = 1
    /\ ~m_stopped

RaceIdle ==
    /\ ed = [pending |-> << >>, assign |-> << >>, size |-> m_sample.frames,
             pre |-> markerGroup(m_sample), post |-> markerGroup(m_sample),
             preFrames |-> m_sample.frames, postFrames |-> m_sample.frames]
    /\ au = AuIdle
    /\ obs = [kind |-> "none", edits |-> 0, group |-> << >>, frames |-> 0,
              preFrames |-> 0, postFrames |-> 0, pre |-> << >>, post |-> << >>]

Init == InitAfp /\ InitSdlOpened /\ RaceIdle

NextEdit ==
    \/ \E v \in EditVals : SetStart(v)
    \/ \E v \in EditVals : SetEnd(v)
    \/ \E v \in EditVals : SetLoop(v)
    \/ \E n \in SampleSizes : SetAudioFile(n)

SpecEdit == Init /\ [][NextEdit]_vars

\* Frame counts a drag of the wave view slides by.
SlideFrames == {-1, 1}

\* The wave view's slides on samples of every size, the empty one included.
NextSlide ==
    \/ \E n \in SampleSizes : SetAudioFile(n)
    \/ \E point \in Points, frames \in SlideFrames, slide_to \in BOOLEAN :
          SlidePoint(point, frames, slide_to)
    \/ \E frames \in SlideFrames : SlideSample(frames)

SpecSlide == Init /\ [][NextSlide]_vars

\* A source that carries a sample, with the sample's size; one that carries
\* none.
SrcInputs == ({"file", "data"} \X PlaySizes) \cup ({"missing", "none"} \X {0})

\* Settings loaded into an instrument that may already hold a sample.
NextSettings ==
    \/ \E n \in PlaySizes : SetAudioFile(n)
    \/ \E in \in SrcInputs, e \in PlayVals, s \in PlayVals, l \in PlayVals,
          mode \in LoopModes, rev \in BOOLEAN, stu \in BOOLEAN :
          LoadSettings(in[1], in[2], e, s, l, mode, rev, stu)

SpecSettings == Init /\ [][NextSettings]_vars

Next ==
    \/ \E v \in PlayVals : SetStart(v)
    \/ \E v \in PlayVals : SetEnd(v)
    \/ \E v \in PlayVals : SetLoop(v)
    \/ \E n \in PlaySizes : SetAudioFile(n)
    \/ ToggleReverse
    \/ ToggleStutter
    \/ \E mode \in LoopModes : SetLoopMode(mode)
    \/ \E n \in PlaySlots, lowFreq \in BOOLEAN, frames \in 1..MaxPeriodFrames :
          PlayNote(n, lowFreq, frames)
    \/ \E n \in PlaySlots : FinishNote(n)
    \/ \E n \in PlaySlots : DeleteNote(n)

Spec == Init /\ [][Next]_vars

InitDevice == InitAfp /\ InitSdl /\ RaceIdle

SpecSdl == InitDevice /\ [][NextSdl]_vars

\* The notes of a loaded instrument, period by period, with loop mode and
\* stutter switched while they sound.  Markers and sample stay as loaded.
NextNote ==
    \/ \E n \in PlaySlots, lowFreq \in BOOLEAN, frames \in 1..MaxPeriodFrames,
          offset \in 0..MaxOffset : PlayNoteAt(n, lowFreq, frames, offset)
    \/ \E n \in PlaySlots : FinishNote(n)
    \/ \E n \in PlaySlots : DeleteNote(n)
    \/ \E mode \in LoopModes : SetLoopMode(mode)
    \/ ToggleStutter

InitNote == InitAfpLoaded /\ InitSdlOpened /\ RaceIdle

SpecNote == InitNote /\ [][NextNote]_vars

\* The two handlers as functions of the instrument's fields: the three point
\* values are any values of the models' range, as a setValue can leave them
\* when the handler is entered, on a sample of any of the sizes.
InitAnyTriple ==
    /\ m_startPointModel \in EditVals
    /\ m_endPointModel \in EditVals
    /\ m_loopPointModel \in EditVals
    /\ m_sample \in { NewSample(n) : n \in SampleSizes }
    /\ m_nextPlayStartPoint = 0
    /\ m_nextPlayBackwards = FALSE
    /\ m_stutterModel = FALSE
    /\ m_loopModel = LoopOff
    /\ m_reverseModel = FALSE
    /\ notes = [n \in NoteSlots |-> FreshNote]
    /\ heap = {}
    /\ cascadeOver = FALSE
    /\ cont = NoCont
    /\ last = [op |-> "init"]

RunStartPointChanged ==
    /\ last.op = "init"
    /\ Install(startPointChanged(Cur))
    /\ last' = [op |-> "startPointChanged", from |-> Triple]
    /\ UNCHANGED << m_stutterModel, m_loopModel, m_reverseModel, notes, heap, cont >>
    /\ UNCHANGED << sdlVars, raceVars >>

RunEndPointChanged ==
    /\ last.op = "init"
    /\ Install(endPointChanged(Cur))
    /\ last' = [op |-> "endPointChanged", from |-> Triple]
    /\ UNCHANGED << m_stutterModel, m_loopModel, m_reverseModel, notes, heap, cont >>
    /\ UNCHANGED << sdlVars, raceVars >>

NextHandler ==
    \/ RunStartPointChanged
    \/ RunEndPointChanged

InitHandler == InitAnyTriple /\ InitSdlOpened /\ RaceIdle

SpecHandler == InitHandler /\ [][NextHandler]_vars

\* Two notes of a loaded instrument, created, played, finished and destroyed
\* in any order, in and out of stutter mode.
NextOwn ==
    \/ \E n \in NoteSlots, lowFreq \in BOOLEAN : PlayNote(n, lowFreq, 1)
    \/ \E n \in NoteSlots : FinishNote(n)
    \/ \E n \in NoteSlots : DeleteNote(n)
    \/ ToggleStutter

InitOwn == InitAfpLoaded /\ InitSdlOpened /\ RaceIdle

SpecOwn == InitOwn /\ [][NextOwn]_vars

\* The audio thread: the device callback of a started device, and playNote
\* for the periods of a note of a loaded instrument, in every loop mode.
NextBound ==
    \/ StartSetFlag
    \/ StartUnpause
    \/ \E len \in 1..MaxCallbackFrames : CbEnter(len)
    \/ CbCheckStopped
    \/ \E frames \in 0..MaxEngineFrames : CbIterate(frames)
    \/ CbLoopEnd
    \/ CbReturn
    \/ \E n \in PlaySlots, frames \in 1..MaxPeriodFrames :
          PlayNoteAt(n, FALSE, frames, 0)
    \/ \E mode \in LoopModes : SetLoopMode(mode)

InitBound ==
    /\ InitAfpLoaded
    /\ InitSdl
    /\ m_outputDevice = 1
    /\ backend.inputDevice = 0
    /\ ~m_stopped
    /\ RaceIdle

SpecBound == InitBound /\ [][NextBound]_vars

\* A note of an instrument that holds a sample of LoopFrames frames, played
\* in periods of ShortPeriod and LongPeriod frames, while the loop point is
\* moved between the sample's start and its middle and the loop mode changes.
LoopFrames == 100
ShortPeriod == 10
LongPeriod == 60

NextLoop ==
    \/ \E n \in PlaySlots, frames \in {ShortPeriod, LongPeriod} :
          PlayPeriod(n, frames)
    \/ \E v \in {0, One \div 2} : SetLoop(v)
    \/ \E mode \in LoopModes : SetLoopMode(mode)

InitLoop ==
    /\ m_startPointModel = 0
    /\ m_endPointModel = One
    /\ m_loopPointModel = 0
    /\ m_sample = NewSample(LoopFrames)
    /\ m_nextPlayStartPoint = 0
    /\ m_nextPlayBackwards = FALSE
    /\ m_stutterModel = FALSE
    /\ m_loopModel = LoopOff
    /\ m_reverseModel = FALSE
    /\ notes = [n \in NoteSlots |-> FreshNote]
    /\ heap = {}
    /\ cascadeOver = FALSE
    /\ cont = NoCont
    /\ last = [op |-> "setAudioFile"]
    /\ InitSdlOpened
    /\ RaceIdle

SpecLoop == InitLoop /\ [][NextLoop]_vars

\* A note of an instrument that holds a sample of PingFrames frames, played
\* in periods of up to two sample lengths, while the loop point is moved
\* between the sample's start and its middle and the loop mode changes.
PingFrames == 6

NextPing ==
    \/ \E n \in PlaySlots, frames \in 1..(2 * PingFrames) :
          PlayPeriod(n, frames)
    \/ \E v \in {0, One \div 2} : SetLoop(v)
    \/ \E mode \in LoopModes : SetLoopMode(mode)
    \/ \E n \in PlaySlots : DeleteNote(n)

InitPing ==
    /\ m_startPointModel = 0
    /\ m_endPointModel = One
    /\ m_loopPointModel = 0
    /\ m_sample = NewSample(PingFrames)
    /\ m_nextPlayStartPoint = 0
    /\ m_nextPlayBackwards = FALSE
    /\ m_stutterModel = FALSE
    /\ m_loopModel = LoopOff
    /\ m_reverseModel = FALSE
    /\ notes = [n \in NoteSlots |-> FreshNote]
    /\ heap = {}
    /\ cascadeOver = FALSE
    /\ cont = NoCont
    /\ last = [op |-> "setAudioFile"]
    /\ InitSdlOpened
    /\ RaceIdle

SpecPing == InitPing /\ [][NextPing]_vars

\* Point edits, file loads, mode changes and the periods of a note, with the
\* beat length asked for in between.
NextBeat ==
    \/ \E v \in PlayVals : SetStart(v)
    \/ \E v \in PlayVals : SetEnd(v)
    \/ \E v \in PlayVals : SetLoop(v)
    \/ \E n \in PlaySizes : SetAudioFile(n)
    \/ ToggleStutter
    \/ \E mode \in LoopModes : SetLoopMode(mode)
    \/ \E n \in PlaySlots, lowFreq \in BOOLEAN, frames \in 1..MaxPeriodFrames :
          PlayNote(n, lowFreq, frames)
    \/ \E n \in PlaySlots : FinishNote(n)
    \/ \E n \in PlaySlots : DeleteNote(n)
    \/ \E factor \in FreqFactors : BeatLen(factor)

SpecBeat == Init /\ [][NextBeat]_vars

InitRace == InitAfpLoaded /\ InitSdlOpened /\ RaceIdle

SpecRace == InitRace /\ [][NextRace]_vars

SpecLoad == InitRace /\ [][NextLoad]_vars

\* ------------------------------------------------------------------ claims
EditOps == {"setStart", "setEnd", "setLoop", "setAudioFile"}

\* C1: after any sequence of setStart, setEnd and setLoop edits from the
\* constructor state, every time the outermost change handler has returned,
\* the normalized markers satisfy start < end and start <= loop < end.
C1_PointsOrdered ==
    /\ m_startPointModel < m_endPointModel
    /\ m_startPointModel <= m_loopPointModel
    /\ m_loopPointModel < m_endPointModel

\* C1 witness: a setStart whose handler ran and resolved a conflict, so that
\* the start point is not the value the editor set.
C1_Witness ==
    /\ last.op = "setStart"
    /\ last.ran
    /\ last.arg # m_startPointModel

\* C2: after every point-change operation on a sample of any length, the
\* frame markers satisfy 0 <= startFrame <= loopStartFrame < endFrame <=
\* frames and startFrame < endFrame.  Stated here for samples of at least
\* one frame.
C2_FrameMarkersOrdered ==
    (last.op \in EditOps /\ m_sample.frames >= 1) =>
        /\ 0 <= m_sample.startFrame
        /\ m_sample.startFrame <= m_sample.loopStartFrame
        /\ m_sample.loopStartFrame < m_sample.endFrame
        /\ m_sample.endFrame <= m_sample.frames
        /\ m_sample.startFrame < m_sample.endFrame

\* C3: once stopProcessing has returned, and until the next startProcessing,
\* no callback invocation calls getNextBuffer, and a callback that finishes
\* has written silence to its whole span.
C3_NoPullAfterStop ==
    stopReturned =>
        /\ ~cb.calledEngine
        /\ cb.pc = "done" => \A i \in 1..Len(cb.buf) : cb.buf[i] = 0

\* C3 witness: a device that pulled frames from the engine, was stopped while
\* playing, and whose stopProcessing has returned.
C3_Witness ==
    /\ stopReturned
    /\ pulled > 0
    /\ m_stopped
    /\ sdl_paused

\* C4: startProcessing and stopProcessing change m_stopped only while holding
\* the device lock, hence never while a callback is executing.
C4_FlagOnlyUnderLock ==
    [][ (ctl_pc' # ctl_pc /\ m_stopped' # m_stopped)
            => (sdl_lock = "ctl" /\ cb.pc = "idle") ]_vars

\* C5: while the control thread performs one point edit, every marker group
\* the audio thread reads in playNote is the complete group from before the
\* edit or the complete group from after it.  Reads of a playNote call that
\* more than one edit overlaps are left out.
C5_NoPartialGroup ==
    (obs.kind # "none" /\ obs.edits <= 1) => obs.group \in {obs.pre, obs.post}

\* C6 as claimed: if getNextBuffer returns 0 frames during a callback, the
\* whole output span of that invocation is zero.
C6_WholeSpanZero ==
    (cb.pc = "done" /\ cb.underrun) =>
        \A i \in 1..Len(cb.buf) : cb.buf[i] = 0

\* C6 amended: if getNextBuffer returns 0 frames during a callback, the part
\* of the span not yet written (from the write position to the end) is zero
\* and the frames copied before it stay; the whole span is zero when the
\* first pull of the invocation returns 0.
C6_RestOfSpanZero ==
    (cb.pc = "done" /\ cb.underrun) =>
        /\ cb.len = 0
        /\ \A i \in 1..Len(cb.buf) :
              IF i > cb.underrunAt THEN cb.buf[i] = 0 ELSE cb.buf[i] # Unwritten

\* C6 witness: an invocation that copied a non-zero frame and then got 0
\* frames from the engine, with more than one frame left to fill.
C6_Witness ==
    /\ cb.pc = "done"
    /\ cb.underrun
    /\ cb.underrunAt > 0
    /\ cb.underrunAt + 1 < Len(cb.buf)
    /\ cb.buf[1] > 0

C9_MagicKey ==
    (last.op = "playNote" /\ last.lowFreq /\ m_stutterModel) =>
        /\ m_nextPlayStartPoint = m_sample.startFrame
        /\ m_nextPlayBackwards = FALSE
        /\ last.buffer = "unchanged"
        /\ ~last.played
        /\ ~last.created
        /\ ~last.had => ~notes[last.n].m_pluginData.has

\* C9 witness: a magic-key call on a note without PlaybackState that moved
\* the continuation cursor back to a start frame other than 0.
C9_Witness ==
    /\ last.op = "playNote"
    /\ last.lowFreq
    /\ m_stutterModel
    /\ ~last.had
    /\ m_sample.startFrame > 0
    /\ last.from[1] # m_sample.startFrame
    /\ m_nextPlayStartPoint = m_sample.startFrame

\* C10: whenever playNote creates a PlaybackState, the frame index it is
\* given lies in [startFrame, endFrame) of the current sample.  Stated here
\* for samples whose playable region is not empty.
C10_StartInRange ==
    (last.op = "playNote" /\ last.created
        /\ m_sample.startFrame < m_sample.endFrame) =>
        /\ m_sample.startFrame <= last.given[1]
        /\ last.given[1] < m_sample.endFrame

\* C11 as claimed: when Sample::play reports no audio for an unfinished
\* note whose cursor is past the end with loop mode Off, frames 0 to
\* offset+frames of the working buffer are zero, and every later period of
\* that note produces no audio.
C11_SilentForGood ==
    (last.op = "playNoteAt" /\ last.played) =>
        /\ last.exhausted => \A i \in DOMAIN last.wb : last.wb[i] = 0
        /\ last.was # "no" => \A i \in DOMAIN last.wb : last.wb[i] = 0

\* C11 amended: the period in which play reports exhaustion is zeroed from
\* the buffer's start, and so is every later period of that note as long as
\* loop mode, markers and sample have not been changed since.
C11_SilentWhileUntouched ==
    (last.op = "playNoteAt" /\ last.played) =>
        /\ last.exhausted => \A i \in DOMAIN last.wb : last.wb[i] = 0
        /\ last.was = "yes" => \A i \in DOMAIN last.wb : last.wb[i] = 0

\* C11 witness: a later period of an exhausted note, at a non-zero offset,
\* whose buffer is zero from its first frame.
C11_Witness ==
    /\ last.op = "playNoteAt"
    /\ last.played
    /\ last.was = "yes"
    /\ last.offset > 0
    /\ last.wb[1] = 0

\* C12: from every state reachable through point edits, setStart with the
\* start point's own current value leaves the three normalized values and the
\* four frame markers unchanged; so does the start handler itself, were it
\* run on that state.
C12_SetStartOwnValue ==
    LET r == setStartValue(Cur, m_startPointModel)
        h == startPointChanged(Cur)
    IN /\ << r.start, r.end, r.loop >> = Triple
       /\ markerGroup(r.sample) = markerGroup(m_sample)
       /\ << h.start, h.end, h.loop >> = Triple
       /\ markerGroup(h.sample) = markerGroup(m_sample)

\* C12 witness: a setStart with the start point's own value, other than 0, on
\* a loaded sample; no handler ran.
C12_Witness ==
    /\ last.op = "setStart"
    /\ ~last.ran
    /\ last.arg = m_startPointModel
    /\ m_startPointModel > 0
    /\ m_sample.frames > 0
    /\ m_sample.startFrame > 0

\* C13: a setStart(v) with v greater than the current end e swaps the two:
\* when the operation completes, start equals e and end equals v.
C13_SwapStartEnd ==
    [][ (last'.op = "setStart" /\ last'.arg > m_endPointModel)
            => (m_startPointModel' = m_endPointModel
                /\ m_endPointModel' = last'.arg) ]_vars

\* C14: a setLoop(v) with v at or above the current end pushes end to
\* v + 0.001, limited to 1.0; if end is then exactly 1.0 the loop point is
\* 0.999; in every case loop < end when the operation completes.
C14_LoopPushesEnd ==
    (last.op = "setLoop" /\ last.rel = "atOrAboveEnd") =>
        /\ m_endPointModel = Min2(last.arg + Eps, One)
        /\ m_endPointModel = One => m_loopPointModel = One - Eps
        /\ m_loopPointModel < m_endPointModel

\* C14 witness: a setLoop between 0.999 and 1.0 at or above the end: the push
\* of end was limited to 1.0 and the loop point pulled back to 0.999.
C14_Witness ==
    /\ last.op = "setLoop"
    /\ last.rel = "atOrAboveEnd"
    /\ last.arg = One - 1
    /\ m_endPointModel = One
    /\ m_loopPointModel = One - Eps

\* C15: a setLoop(v) with v below the current start pulls start down to v,
\* the loop point keeps v, and end is not changed.
C15_LoopPullsStart ==
    [][ (last'.op = "setLoop" /\ last'.rel = "belowStart")
            => (/\ m_startPointModel' = last'.arg
                /\ m_loopPointModel' = last'.arg
                /\ m_endPointModel' = m_endPointModel) ]_vars

\* C15 witness: a setLoop below the start that pulled start down, with an end
\* point other than 1.0.
C15_Witness ==
    /\ last.op = "setLoop"
    /\ last.rel = "belowStart"
    /\ m_startPointModel = last.arg
    /\ m_loopPointModel = last.arg
    /\ m_endPointModel < One

\* C16: from any triple of normalized values, the end-changed handler yields
\* the same start, end and loop values, the same frame markers and the same
\* continuation cursor as the start-changed handler.
C16_EndAsStart ==
    LET a == endPointChanged(Cur)
        b == startPointChanged(Cur)
    IN /\ << a.start, a.end, a.loop >> = << b.start, b.end, b.loop >>
       /\ markerGroup(a.sample) = markerGroup(b.sample)
       /\ << a.nps, a.npb >> = << b.nps, b.npb >>
       /\ a.over = b.over

\* C16 witness: the end handler ran on a triple whose start lay above its end
\* and left the two in order.
C16_Witness ==
    /\ last.op = "endPointChanged"
    /\ last.from[1] > last.from[2]
    /\ m_startPointModel < m_endPointModel
    /\ m_sample.frames > 0

PointOps == {"setStart", "setEnd", "setLoop"}

\* C17: every point change ends with the frame markers equal to
\* trunc(normalized value x frame count) for start, end and loop, and with
\* the continuation cursor at the new start frame, direction forward.
C17_MarkersRecomputed ==
    (last.op \in PointOps /\ last.ran) =>
        /\ m_sample.startFrame = ToFrame(m_startPointModel, m_sample.frames)
        /\ m_sample.endFrame = ToFrame(m_endPointModel, m_sample.frames)
        /\ m_sample.loopStartFrame = ToFrame(m_loopPointModel, m_sample.frames)
        /\ m_nextPlayStartPoint = m_sample.startFrame
        /\ m_nextPlayBackwards = FALSE

\* C17 witness: a start point change in stutter mode, while a note holds a
\* PlaybackState, that put the start frame and the cursor at a frame other
\* than 0.
C17_Witness ==
    /\ last.op = "setStart"
    /\ last.ran
    /\ m_stutterModel
    /\ notes[1].m_pluginData.has
    /\ m_sample.startFrame > 0
    /\ m_nextPlayStartPoint = m_sample.startFrame

\* C18: every frame pulled from the engine is written to the device output
\* with the master gain applied exactly once, however the callback length
\* splits an engine period over loop iterations and invocations: the i-th
\* frame copied by an invocation is the next engine frame times one gain (in
\* the SDL2 build, the gain at the time of the copy).
C18_GainOnce ==
    cb.pc \in {"loop", "done"} =>
        \A i \in 1..cb.copied :
            /\ \E g \in Gains : cb.buf[i] = (cb.base + i) * g
            /\ have_sdl2 => cb.buf[i] = (cb.base + i) * masterGain

\* C18 witness: an invocation that began inside an engine period, copied the
\* rest of it without a pull, and wrote it with a gain above 1.
C18_Witness ==
    /\ cb.pc = "done"
    /\ ~cb.calledEngine
    /\ cb.copied >= 1
    /\ cb.base >= 1
    /\ masterGain > 1
    /\ cb.buf[1] = (cb.base + 1) * masterGain

\* C19: with master gain 1.0 the frames the callback copies equal the
\* frames pulled from the engine, and with master gain 0.0 every frame the
\* callback writes is exactly zero.  In the non-SDL2 build the gain is applied
\* when a period is pulled, so there the statement is about the frames pulled
\* under the present gain, not about the rest of an earlier period.
C19_UnityAndZeroGain ==
    cb.pc \in {"loop", "done"} =>
        LET lead == IF have_sdl2 THEN 0 ELSE cb.lead IN
        /\ masterGain = 1 =>
              \A i \in (lead + 1)..cb.copied : cb.buf[i] = cb.base + i
        /\ masterGain = 0 =>
              \A i \in (lead + 1)..cb.wp : cb.buf[i] = 0

\* C19 witness: an SDL2 invocation that copied the rest of an earlier period
\* and a frame of a new one with gain 0.
C19_Witness ==
    /\ have_sdl2
    /\ cb.pc = "done"
    /\ masterGain = 0
    /\ cb.lead >= 1
    /\ cb.copied > cb.lead
    /\ cb.buf[cb.copied] = 0

\* C20: stopProcessing is idempotent.  A call made after a stopProcessing has
\* returned (and before the next startProcessing) never enters the locked
\* branch, and a call on a device that is not playing returns with m_stopped
\* and the pause state as they were.
C20_StopIdempotent ==
    [][ /\ (stopReturned /\ ctl_pc = "idle") => ctl_pc' # "stop_lock"
        /\ (ctl_pc = "idle" /\ ctl_pc' = "idle" /\ audioStatus # "playing")
              => (m_stopped' = m_stopped /\ sdl_paused' = sdl_paused) ]_vars

\* C20 witness: stopProcessing has returned on an opened device that was
\* never started: the flag and the pause state are as constructed.
C20_Witness ==
    /\ stopReturned
    /\ ctl_pc = "idle"
    /\ m_outputDevice = 1
    /\ sdl_paused
    /\ ~m_stopped
    /\ pulled = 0

\* The notes that hold a PlaybackState.
Holders == { n \in NoteSlots : notes[n].m_pluginData.has }

\* C21: a note holds a PlaybackState exactly when a playNote call that was
\* not a magic-key call has run for it; the states held are distinct objects,
\* all allocated, and no other object is allocated (what a destroyed note
\* held is released); a note that holds a state before and after a step holds
\* the same one.
C21_OneStatePerNote ==
    /\ [](/\ \A n \in NoteSlots : notes[n].m_pluginData.has <=> notes[n].entered
          /\ \A n \in NoteSlots : notes[n].m_pluginData.has <=>
                                      notes[n].m_pluginData.id # 0
          /\ \A n, m \in Holders :
                n # m => notes[n].m_pluginData.id # notes[m].m_pluginData.id
          /\ heap = { notes[n].m_pluginData.id : n \in Holders })
    /\ [][ \A n \in NoteSlots :
              (notes[n].m_pluginData.has /\ notes'[n].m_pluginData.has)
                  => notes'[n].m_pluginData.id = notes[n].m_pluginData.id ]_vars

\* C21 witness: two notes got a state each, the first was destroyed and its
\* state released, and the second went through a later period with its own.
C21_Witness ==
    /\ heap = {2}
    /\ ~notes[1].m_pluginData.has
    /\ notes[2].m_pluginData.id = 2
    /\ last.op = "playNote"
    /\ last.n = 2
    /\ last.had

\* C22: while setAudioFile replaces the sample, the sample a playNote period
\* renders from (frame count and markers, read together) is the whole sample
\* from before the load or the whole sample the load ends with.
C22_OldOrNewSample ==
    (obs.kind = "group" /\ obs.edits = 1) =>
        \/ obs.frames = obs.preFrames /\ obs.group = obs.pre
        \/ obs.frames = obs.postFrames /\ obs.group = obs.post

\* C23: no playNote call on the audio thread allocates memory, locks a
\* mutex or performs file I/O, the first period of a note included.
C23_NoAllocationInPlayNote ==
    last.op = "playNote" => last.hazards = {}

\* C24: if SDL initialisation or the opening of the output device failed in
\* the constructor, the success flag is false and the device never runs: it
\* stays paused and no callback pulls from the engine, whatever is called
\* afterwards.  The flag is true exactly when the output device was opened.
C24_FailedOpenNeverRuns ==
    /\ backend.success <=> ("output" \in { backend.acquired[i] :
                                             i \in DOMAIN backend.acquired })
    /\ ~backend.success =>
          /\ sdl_paused
          /\ audioStatus # "playing"
          /\ cb = CbIdle
          /\ pulled = 0

\* C24 witness: SDL was initialised, the output device could not be opened,
\* and a startProcessing call has returned since.
C24_Witness ==
    /\ backend.init
    /\ ~backend.success
    /\ backend.started
    /\ ctl_pc = "idle"
    /\ sdl_paused

Reverse(s) == [i \in 1..Len(s) |-> s[Len(s) + 1 - i]]

\* C25: destroying the device first stops processing and then releases the
\* resources in the reverse of the order in which the constructor acquired
\* them, in both builds.  Stated here for a device whose construction
\* succeeded.
C25_ReverseRelease ==
    (backend.phase = "gone" /\ backend.success) =>
        /\ backend.stoppedFirst
        /\ backend.released = Reverse(backend.acquired)

\* C26: when loadSettings names a sample source file that does not exist, a
\* load error is reported, the instrument's sample afterwards has zero
\* frames whatever sample it held before, and the remaining settings (loop
\* mode, reverse, stutter) are loaded.
C26_MissingFileEmptySample ==
    (last.op = "loadSettings" /\ last.src = "missing") =>
        /\ last.error
        /\ m_sample.frames = 0
        /\ m_loopModel = last.looped
        /\ m_reverseModel = last.reversed
        /\ m_stutterModel = last.stutter

\* C27: after setAudioFile the markers span the whole new sample:
\* startFrame = 0, loopStartFrame = 0 and endFrame = frame count, whatever
\* the start, end and loop values were before the load.
C27_FullRangeOnLoad ==
    last.op = "setAudioFile" =>
        /\ m_sample.startFrame = 0
        /\ m_sample.loopStartFrame = 0
        /\ m_sample.endFrame = m_sample.frames

\* C28: every invocation of the device callback ends after at most as many
\* passes through its loop as frames were requested, each pass but one that
\* ends the invocation having written at least one frame, and every playNote
\* call renders at most as many frames as the period asks for; no step of
\* either waits for another thread.
C28_BoundedByFrames ==
    /\ cb.pc \in {"loop", "done"} =>
          /\ cb.iters <= Len(cb.buf)
          /\ cb.len >= 0
          /\ cb.wp + cb.len = Len(cb.buf)
          /\ cb.pc = "loop" => cb.iters <= cb.wp
    /\ (cb.pc = "loop" /\ cb.len > 0) =>
          \/ m_currentBufferFramePos = 0
          \/ m_currentBufferFramesCount - m_currentBufferFramePos >= 1
    /\ last.op = "playNoteAt" => last.steps <= last.frames

\* C28 witness: an invocation for the longest span, filled frame by frame in
\* as many passes as it has frames, after a playNote period that wrapped at
\* the loop point and rendered all its frames.
C28_Witness ==
    /\ cb.pc = "done"
    /\ Len(cb.buf) = MaxCallbackFrames
    /\ cb.iters = MaxCallbackFrames
    /\ ~cb.underrun
    /\ last.op = "playNoteAt"
    /\ m_loopModel = LoopOn
    /\ last.steps = last.frames
    /\ last.frames = MaxPeriodFrames

\* C29: on a sample with zero frames a marker slide is a no-op (the three
\* point values and the frame markers stay as they were, the markers at 0)
\* and does not divide by the sample's frame count.
C29_EmptySampleSlides ==
    (last.op \in {"slidePoint", "slideSample"} /\ last.size = 0) =>
        /\ ~last.divByZero
        /\ Triple = last.from
        /\ markerGroup(m_sample) = last.markers
        /\ markerGroup(m_sample) = << 0, 0, 0, 0 >>

\* The frame Sample::play reads after frame f in loop mode Loop.
LoopSuccessor(markers, f) == IF f + 1 >= markers[2] THEN markers[3] ELSE f + 1

\* A period of 60 frames from cursor 70 of a sample of 100 frames with start
\* 0, end 100 and loop point 50, in loop mode Loop.
SixtyFromSeventy ==
    /\ last.op = "playPeriod"
    /\ last.played
    /\ last.mode = LoopOn
    /\ last.markers = << 0, 100, 50, 100 >>
    /\ last.from = 70
    /\ last.frames = 60

Visits(f, k) == Cardinality({i \in 1..k : last.reads[i] = f})

\* A period in loop mode PingPong that starts at the loop start, moving
\* forward, and is long enough for a round trip over a region of two frames
\* or more.
RoundTripPeriod ==
    /\ last.op = "playPeriod"
    /\ last.played
    /\ last.mode = LoopPingPong
    /\ last.from = last.markers[3]
    /\ ~last.fromBackwards
    /\ last.markers[2] - last.markers[3] >= 2
    /\ last.frames > 2 * (last.markers[2] - last.markers[3] - 1)

C32_CascadeSettles ==
    /\ ~cascadeOver
    /\ \A v \in {m_startPointModel, m_endPointModel, m_loopPointModel} :
          0 <= v /\ v <= One

\* An edit whose handler changed values itself, so that handlers ran inside
\* the handler: the start point was set above the end point and the two
\* were swapped.
C32_Witness ==
    /\ last.op = "setStart"
    /\ last.rel = "atOrAboveEnd"
    /\ last.ran
    /\ last.arg = m_endPointModel
    /\ last.arg > m_startPointModel
    /\ ~cascadeOver

\* C33: during a callback the frames copied to the output so far are the
\* engine frames that follow the last frame an earlier callback wrote, in
\* pull order and each scaled by a gain: the i-th frame of the span is the
\* (base + i)-th frame the engine produced, whether it comes from a period
\* pulled by an earlier callback or from one pulled now; the frames handed
\* out never run ahead of or fall behind the frames copied, so the next
\* callback goes on with the next frame; what follows the copied frames in
\* the span is silence.
C33_PulledFramesInOrder ==
    cb.pc # "idle" =>
        /\ framesHandedOut = cb.base + cb.copied
        /\ cb.copied <= Len(cb.buf)
        /\ \A i \in 1..cb.copied :
              cb.buf[i] \in { applyGain(cb.base + i, g) : g \in Gains }
        /\ \A i \in (cb.copied + 1)..Len(cb.buf) :
              cb.buf[i] \in {0, Unwritten}

\* A callback at unity gain has written the rest of a period an earlier
\* callback pulled, followed by frames of a period it pulled itself.
C33_Witness ==
    /\ cb.pc = "done"
    /\ masterGain = 1
    /\ cb.lead > 0
    /\ cb.copied > cb.lead
    /\ cb.base > 0
    /\ \A i \in 1..cb.copied : cb.buf[i] = cb.base + i

\* The read position is a position inside the last pulled buffer.
PosInsideBuffer ==
    /\ m_currentBufferFramePos >= 0
    /\ pulled = 0 => m_currentBufferFramePos = 0
    /\ pulled > 0 => m_currentBufferFramePos < m_currentBufferFramesCount
    /\ pulled > 0 => m_currentBufferFramesCount = Len(m_outBuf)

\* A pass of the callback loop asks the engine for a buffer when the read
\* position is 0, and only then.
PullAtZero ==
    (cb.pc = "loop" /\ cb'.iters = cb.iters + 1) =>
        IF m_currentBufferFramePos = 0
        THEN cb'.calledEngine /\ pulled' >= pulled
        ELSE /\ pulled' = pulled
             /\ cb'.calledEngine = cb.calledEngine
             /\ m_currentBufferFramesCount' = m_currentBufferFramesCount

\* C34: in every state reached by callbacks, starts and stops the read
\* position in the scratch buffer is 0 before the first pull and below the
\* frame count of the last pulled buffer afterwards, and a pass of the
\* callback pulls a new buffer exactly when the position is 0.
C34_PositionBelowCount == []PosInsideBuffer /\ [][PullAtZero]_vars

\* A callback has ended in the middle of a pulled period: the position is
\* neither 0 nor at the period's end.
C34_Witness ==
    /\ cb.pc = "done"
    /\ m_currentBufferFramePos > 0
    /\ m_currentBufferFramePos < m_currentBufferFramesCount
    /\ cb.calledEngine

\* C35 as stated: whenever no startProcessing or stopProcessing call is in
\* progress, an unpaused output device has its stopped flag false.
C35_PlayingImpliesNotStopped ==
    (ctl_pc = "idle" /\ m_outputDevice # 0 /\ ~sdl_paused) => ~m_stopped

\* C35, amended: whenever no startProcessing or stopProcessing call is in
\* progress, an unpaused output device has its stopped flag true only in the
\* non-SDL2 build, after a callback since the last startProcessing got 0
\* frames from getNextBuffer and set the flag itself.
C35_PlayingStoppedOnlyByUnderrun ==
    (ctl_pc = "idle" /\ m_outputDevice # 0 /\ ~sdl_paused /\ m_stopped) =>
        (~have_sdl2 /\ backend.underran)

\* The device is playing after a callback of the SDL2 build got 0 frames:
\* the flag is still false.
C35_Witness ==
    /\ ctl_pc = "idle"
    /\ m_outputDevice # 0
    /\ ~sdl_paused
    /\ have_sdl2
    /\ cb.pc = "done"
    /\ cb.underrun
    /\ ~m_stopped

\* C37: in the non-SDL2 build, once a callback got 0 frames from
\* getNextBuffer the stopped flag is set and stays set until startProcessing
\* is called again; every later callback before that writes only silence and
\* does not call getNextBuffer.
C37_UnderrunStopsDevice ==
    (~have_sdl2 /\ backend.underran) =>
        /\ m_stopped
        /\ (cb.pc = "done" /\ ~cb.underrun) =>
              /\ ~cb.calledEngine
              /\ \A i \in 1..Len(cb.buf) : cb.buf[i] = 0

\* A callback of the non-SDL2 build, on a device that is still unpaused, has
\* run after the one that got 0 frames: it wrote silence and left the engine
\* alone.
C37_Witness ==
    /\ ~have_sdl2
    /\ backend.underran
    /\ ~sdl_paused
    /\ cb.pc = "done"
    /\ ~cb.underrun
    /\ ~cb.calledEngine
    /\ Len(cb.buf) > 0
    /\ \A i \in 1..Len(cb.buf) : cb.buf[i] = 0

\* C36: while stutter mode is off the continuation cursor is the sample's
\* start frame and the continuation direction is forward, after any sequence
\* of point edits, reverse and stutter toggles, loop mode changes, file loads
\* and playNote calls; a PlaybackState created then starts there.
C36_CursorAtStartWithoutStutter ==
    ~m_stutterModel =>
        /\ m_nextPlayStartPoint = m_sample.startFrame
        /\ ~m_nextPlayBackwards
        /\ (last.op = "playNote" /\ last.created) =>
              last.given = << m_sample.startFrame, FALSE >>

\* With stutter mode off, a note got its PlaybackState at a start frame
\* other than 0 of a loaded sample, and played.
C36_Witness ==
    /\ ~m_stutterModel
    /\ last.op = "playNote"
    /\ last.created
    /\ last.played
    /\ m_sample.frames > 0
    /\ m_sample.startFrame > 0
    /\ last.given = << m_sample.startFrame, FALSE >>

\* A step that toggles the reverse flag or the stutter flag.
Toggles ==
    \/ m_reverseModel' # m_reverseModel
    \/ m_stutterModel' # m_stutterModel

\* The three points and the four frame markers.
PointsAndMarkers(smp, start, end, loop) ==
    << start, end, loop,
       smp.startFrame, smp.endFrame, smp.loopStartFrame, smp.loopEndFrame >>

C39_BeatLen ==
    last.op = "beatLen" =>
        IF m_loopModel # LoopOff
        THEN last.result = 0
        ELSE LET st == noteStart(m_stutterModel, m_nextPlayStartPoint,
                                 m_nextPlayBackwards, m_sample)
             IN /\ last.result >= 0
                /\ last.result = ((m_sample.endFrame - st[1]) * last.factor[1])
                                     \div last.factor[2]

\* The beat length was asked for, with loop mode Off, in stutter mode with
\* the continuation cursor at the end of the sample: it is the length of the
\* whole region, not 0.
C39_Witness ==
    /\ last.op = "beatLen"
    /\ m_loopModel = LoopOff
    /\ m_stutterModel
    /\ m_sample.startFrame < m_sample.endFrame
    /\ m_nextPlayStartPoint >= m_sample.endFrame
    /\ last.factor = << 1, 1 >>
    /\ last.result = m_sample.endFrame - m_sample.startFrame

====
